---- MODULE Spec2Model ----
(***************************************************************************)
(* A model of io_scene_blb's BLB processor (src/blb_processor.py).         *)
(*                                                                         *)
(* Numbers.  The processor computes with decimal.Decimal.  A Decimal (and  *)
(* a Blender float before it is converted) is modelled as an integer count *)
(* of units of 0.0000001, one digit finer than the default quantum of      *)
(* to_decimal, so that quantizing is observable: 1.0 is 10000000 units.    *)
(* Python sequences indexed by const.X, const.Y, const.Z and by the quad   *)
(* section indices are modelled as functions on 0..2, 0..3, 0..5 and 0..6, *)
(* keeping the source's 0-based indices; lists the code appends to are     *)
(* modelled as TLA+ sequences.                                             *)
(***************************************************************************)
EXTENDS Integers, Sequences, FiniteSets, TLC

\* ------------------------------------------------------------------ bounds

\* Largest brick size, in plates, that the drawn inputs span per axis.
MaxBrick == 2
\* The most grid definition objects of a call of __process_grid_definitions.
MaxGridObjects == 2
\* The most collision definition objects of a scene.
MaxCollisionObjects == 11
\* Quad coordinates are drawn from the multiples -MaxHalfSteps..MaxHalfSteps of 0.5.
MaxHalfSteps == 2
\* The most objects a scene holds.
MaxObjects == 2
\* The most calls of process() on one processor, and of to_decimal on one value.
MaxCalls == 2
\* Values passed to to_decimal are drawn from -MaxTwentieths..MaxTwentieths
\* multiples of 0.05.
MaxTwentieths == 30

\* --------------------------------------------------------------- constants

\* Units per 1.0 (the fixed-point scale of the model's Decimals).
Unit == 10 * 1000 * 1000

X == 0
Y == 1
Z == 2

QUAD_SECTION_IDX_TOP == 0
QUAD_SECTION_IDX_BOTTOM == 1
QUAD_SECTION_IDX_NORTH == 2
QUAD_SECTION_IDX_EAST == 3
QUAD_SECTION_IDX_SOUTH == 4
QUAD_SECTION_IDX_WEST == 5
QUAD_SECTION_IDX_OMNI == 6

\* len(const.QUAD_SECTION_ORDER): the number of quad sections.
QUAD_SECTION_COUNT == 7

DEFAULT_COVERAGE == 99999

\* const.FLOATING_POINT_PRECISION = "0.000001", in units.
FLOATING_POINT_PRECISION == 10

\* const.PLATE_HEIGHT = Decimal("0.4") = PLATE_HEIGHT_NUM / PLATE_HEIGHT_DEN.
PLATE_HEIGHT_NUM == 2
PLATE_HEIGHT_DEN == 5
PLATE_HEIGHT == (Unit * PLATE_HEIGHT_NUM) \div PLATE_HEIGHT_DEN

\* const.HUMAN_ERROR = Decimal("0.1") = 1 / HUMAN_ERROR_DEN.
HUMAN_ERROR_DEN == 10

ForwardAxes == {"POSITIVE_X", "NEGATIVE_X", "POSITIVE_Y", "NEGATIVE_Y"}

\* ------------------------------------------------------------ arithmetic

Abs(n) == IF n < 0 THEN -n ELSE n

Sign(n) == IF n < 0 THEN -1 ELSE 1

Vec(x, y, z) == [i \in 0..2 |-> IF i = X THEN x ELSE IF i = Y THEN y ELSE z]

\* Rounding of v / q with a tie going toward zero.
QuantizeHalfDown(v, q) ==
    Sign(v) * Sign(q) * ((2 * Abs(v) + Abs(q) - 1) \div (2 * Abs(q)))

\* Rounding of v / q with a tie going toward positive infinity.
QuantizeHalfCeiling(v, q) ==
    Sign(q) * ((2 * v + Abs(q)) \div (2 * Abs(q)))

\* Decimal.quantize(Decimal("1")) of v / q under ROUND_HALF_UP, for a quantum
\* q other than zero: the nearest integer, a tie going away from zero.
QuantizeHalfUp(v, q) ==
    Sign(v) * Sign(q) * ((2 * Abs(v) + Abs(q)) \div (2 * Abs(q)))

\* is_even(value) of a Decimal: value % 2 == 0.
is_even(value) == value % (2 * Unit) = 0

\* The outcome of a statement that raises nothing.
NoError == "none"

\* The types a quantize argument is passed as; the first two are accepted.
QuantizeTypes == {"str", "Decimal", "float", "int"}

\* What to_decimal raises before it rounds, for a quantize argument of a type
\* and a numeric value: a ValueError for a type other than str and Decimal,
\* decimal.DivisionByZero (trapped by the context) where 1.0 / quantize
\* divides by zero.
to_decimal_raises(quantize) ==
    IF quantize.type \notin {"str", "Decimal"} THEN "ValueError"
    ELSE IF quantize.value = 0 THEN "DivisionByZero"
    ELSE NoError

\* The rounded product value * (1 / quantize), returned without dividing it
\* by (1 / quantize) again.
to_decimal_keeps_product(value, quantize) == QuantizeHalfUp(value, quantize)

\* to_decimal(value, quantize) for a quantum other than zero: value *
\* (1 / quantize) rounded to an integer, divided by (1 / quantize) again.
to_decimal(value, quantize) == QuantizeHalfUp(value, quantize) * quantize

to_decimals(values, quantize) == [i \in DOMAIN values |-> to_decimal(values[i], quantize)]

\* int(Decimal): truncation toward zero, as a whole number.
ToInt(v) == Sign(v) * (Abs(v) \div Unit)

force_to_int(values) == [i \in DOMAIN values |-> ToInt(values[i])]

are_ints(sequence) == \A i \in DOMAIN sequence : sequence[i] = ToInt(sequence[i]) * Unit

\* Decimal / const.PLATE_HEIGHT (exact: every dividend is a multiple of
\* PLATE_HEIGHT_NUM units).
DivPlateHeight(v) == (v * PLATE_HEIGHT_DEN) \div PLATE_HEIGHT_NUM

\* value / Decimal("2.0").
Halve(v) == Sign(v) * (Abs(v) \div 2)

sequence_z_to_plates(xyz) ==
    IF DOMAIN xyz = 0..2
    THEN LET sequence == to_decimals(xyz, FLOATING_POINT_PRECISION)
         IN  [sequence EXCEPT ![Z] = DivPlateHeight(sequence[Z])]
    ELSE xyz

\* The value Python's None is modelled by where a number is expected.
None == -1

\* float("+inf") in a Vector of world coordinates; -Infinity is float("-inf").
Infinity == 2000 * 1000 * 1000

\* round(n / d) of Python's Decimal for d > 0: the nearest integer, a tie
\* going to the even one (Decimal.__round__ ignores the context's rounding).
RoundHalfEven(n, d) ==
    LET q == n \div d
        r == n % d
    IN  IF 2 * r < d THEN q
        ELSE IF 2 * r > d THEN q + 1
        ELSE IF q % 2 = 0 THEN q ELSE q + 1

\* math.ceil of a Decimal, as a whole number.
Ceil(v) == -((-v) \div Unit)

SetMin(S) == CHOOSE m \in S : \A x \in S : m <= x

SetMax(S) == CHOOSE m \in S : \A x \in S : m >= x

\* record_world_min_max(sequence_min, sequence_max, obj): the pair of the
\* updated minimum and maximum.
record_world_min_max(sequence_min, sequence_max, obj) ==
    <<[i \in 0..2 |->
          SetMin({sequence_min[i]} \cup {obj.vertices[k][i] : k \in DOMAIN obj.vertices})],
      [i \in 0..2 |->
          SetMax({sequence_max[i]} \cup {obj.vertices[k][i] : k \in DOMAIN obj.vertices})]>>

calculate_center(object_minimum_coordinates, object_dimensions) ==
    [i \in 0..2 |-> object_minimum_coordinates[i] + Halve(object_dimensions[i])]

\* world_to_local(coordinates, new_origin) of a Vector of floats and an origin
\* of Decimals: the coordinates are quantized, the origin is used as it is.
world_to_local(coordinates, new_origin) ==
    LET decimals == to_decimals(coordinates, FLOATING_POINT_PRECISION)
    IN  [i \in 0..2 |-> decimals[i] - new_origin[i]]

\* An argument left at its default None (calculate_coverage()).
NoArg == << >>

\* ------------------------------------------------------------ swizzle

\* The letters "abfcde" and "bac" as 0-based indices (a = 0).
ORDER_abfcde == <<0, 1, 5, 2, 3, 4>>
ORDER_bac == <<1, 0, 2>>

\* common.swizzle(sequence, order): element i of the result is the element of
\* the sequence that the i-th letter of the order names.
swizzle(sequence, order) == [i \in 0..(Len(order) - 1) |-> sequence[order[i + 1]]]

\* ------------------------------------------------------- calculate_coverage

\* The area of one side, computed as if the forward axis were +X.
coverage_area(brick_size, index) ==
    IF index = QUAD_SECTION_IDX_EAST \/ index = QUAD_SECTION_IDX_WEST
    THEN brick_size[Y] * brick_size[Z]
    ELSE IF index = QUAD_SECTION_IDX_NORTH \/ index = QUAD_SECTION_IDX_SOUTH
         THEN brick_size[X] * brick_size[Z]
         ELSE brick_size[X] * brick_size[Y]

\* Mutant of coverage_entries: the area of a side is computed whether or not
\* the calculation was requested for it.
coverage_entries_always_area(brick_size, calculate_side, hide_adjacent) ==
    [index \in DOMAIN calculate_side |->
        <<hide_adjacent[index], coverage_area(brick_size, index)>>]

\* The loop over calculate_side: one (hide_adjacent, area) entry per side.
coverage_entries(brick_size, calculate_side, hide_adjacent) ==
    [index \in DOMAIN calculate_side |->
        <<hide_adjacent[index],
          IF calculate_side[index] # 0
          THEN coverage_area(brick_size, index)
          ELSE DEFAULT_COVERAGE>>]

\* Mutant of coverage_swizzle: the entries are left in the order of +X for
\* every forward axis.
coverage_swizzle_skipped(coverage, forward_axis) == coverage

\* Mutant of coverage_swizzle: the entries are swizzled for -X as well.
coverage_swizzle_every_rotation(coverage, forward_axis) ==
    IF forward_axis # "POSITIVE_X"
    THEN swizzle(coverage, ORDER_abfcde)
    ELSE coverage

\* The swizzle of the entries according to the forward axis.
coverage_swizzle(coverage, forward_axis) ==
    IF forward_axis = "POSITIVE_Y" \/ forward_axis = "NEGATIVE_Y"
    THEN swizzle(coverage, ORDER_abfcde)
    ELSE coverage

\* Mutant of calculate_coverage: the default coverage hides adjacent faces.
calculate_coverage_default_hides(brick_size, calculate_side, hide_adjacent, forward_axis) ==
    IF calculate_side # NoArg
    THEN coverage_swizzle(coverage_entries(brick_size, calculate_side, hide_adjacent),
                          forward_axis)
    ELSE [index \in 0..5 |-> <<1, DEFAULT_COVERAGE>>]

calculate_coverage(brick_size, calculate_side, hide_adjacent, forward_axis) ==
    IF calculate_side # NoArg
    THEN coverage_swizzle(coverage_entries(brick_size, calculate_side, hide_adjacent),
                          forward_axis)
    ELSE [index \in 0..5 |-> <<0, DEFAULT_COVERAGE>>]

\* BLBProcessor.__process_coverage, of the properties and the brick size.
process_coverage(props, brick_size) ==
    IF props.calculate_coverage # 0
    THEN LET calculate_side ==
                 [i \in 0..5 |->
                     CASE i = 0 -> props.coverage_top_calculate
                       [] i = 1 -> props.coverage_bottom_calculate
                       [] i = 2 -> props.coverage_north_calculate
                       [] i = 3 -> props.coverage_east_calculate
                       [] i = 4 -> props.coverage_south_calculate
                       [] OTHER -> props.coverage_west_calculate]
             hide_adjacent ==
                 [i \in 0..5 |->
                     CASE i = 0 -> props.coverage_top_hide
                       [] i = 1 -> props.coverage_bottom_hide
                       [] i = 2 -> props.coverage_north_hide
                       [] i = 3 -> props.coverage_east_hide
                       [] i = 4 -> props.coverage_south_hide
                       [] OTHER -> props.coverage_west_hide]
         IN  calculate_coverage(brick_size, calculate_side, hide_adjacent,
                                props.axis_blb_forward)
    ELSE calculate_coverage(NoArg, NoArg, NoArg, None)

\* ---------------------------------------------------------------- sort_quad

\* Whether all 4 vertices have the same coordinate on the axis.
quad_is_planar(positions, axis) ==
    /\ positions[0][axis] = positions[1][axis]
    /\ positions[1][axis] = positions[2][axis]
    /\ positions[2][axis] = positions[3][axis]

\* Mutant of sort_quad_scan: the scan stops at the first planar axis, on a
\* bounding plane or not.
sort_quad_scan_stops_at_planar(positions, local_bounds, axis) ==
    IF \E a \in axis..Z : quad_is_planar(positions, a)
    THEN LET a == CHOOSE a \in axis..Z :
                      /\ quad_is_planar(positions, a)
                      /\ \A b \in axis..(a - 1) : ~quad_is_planar(positions, b)
         IN  IF positions[0][a] = local_bounds[a]
             THEN IF a = X THEN QUAD_SECTION_IDX_EAST
                  ELSE IF a = Y THEN QUAD_SECTION_IDX_NORTH
                  ELSE QUAD_SECTION_IDX_TOP
             ELSE IF positions[0][a] = -local_bounds[a]
                  THEN IF a = X THEN QUAD_SECTION_IDX_WEST
                       ELSE IF a = Y THEN QUAD_SECTION_IDX_SOUTH
                       ELSE QUAD_SECTION_IDX_BOTTOM
                  ELSE QUAD_SECTION_IDX_OMNI
    ELSE QUAD_SECTION_IDX_OMNI

\* The for-loop of sort_quad from the given axis on, with its breaks: the
\* direction as if the forward axis were +X.
RECURSIVE sort_quad_scan(_, _, _)
sort_quad_scan(positions, local_bounds, axis) ==
    IF axis > Z
    THEN QUAD_SECTION_IDX_OMNI
    ELSE IF quad_is_planar(positions, axis)
         THEN IF positions[0][axis] = local_bounds[axis]
              THEN IF axis = X THEN QUAD_SECTION_IDX_EAST
                   ELSE IF axis = Y THEN QUAD_SECTION_IDX_NORTH
                   ELSE QUAD_SECTION_IDX_TOP
              ELSE IF positions[0][axis] = -local_bounds[axis]
                   THEN IF axis = X THEN QUAD_SECTION_IDX_WEST
                        ELSE IF axis = Y THEN QUAD_SECTION_IDX_SOUTH
                        ELSE QUAD_SECTION_IDX_BOTTOM
                   ELSE sort_quad_scan(positions, local_bounds, axis + 1)
         ELSE sort_quad_scan(positions, local_bounds, axis + 1)

\* Mutant of sort_quad_rotate: -Y rotates like +Y.
sort_quad_rotate_negative_y_as_positive_y(direction, forward_axis) ==
    IF \/ direction <= QUAD_SECTION_IDX_BOTTOM
       \/ direction = QUAD_SECTION_IDX_OMNI
       \/ forward_axis = "POSITIVE_X"
    THEN direction
    ELSE IF forward_axis = "POSITIVE_Y" THEN ((direction - 1) % 4) + 2
    ELSE IF forward_axis = "NEGATIVE_X" THEN (direction % 4) + 2
    ELSE IF forward_axis = "NEGATIVE_Y" THEN ((direction - 1) % 4) + 2
    ELSE None

\* Mutant of sort_quad_rotate: +Y rotates the other way round.
sort_quad_rotate_positive_y_reversed(direction, forward_axis) ==
    IF \/ direction <= QUAD_SECTION_IDX_BOTTOM
       \/ direction = QUAD_SECTION_IDX_OMNI
       \/ forward_axis = "POSITIVE_X"
    THEN direction
    ELSE IF forward_axis = "POSITIVE_Y" THEN ((direction + 1) % 4) + 2
    ELSE IF forward_axis = "NEGATIVE_X" THEN (direction % 4) + 2
    ELSE IF forward_axis = "NEGATIVE_Y" THEN ((direction + 1) % 4) + 2
    ELSE None

\* The rotation of the direction according to the forward axis.
sort_quad_rotate(direction, forward_axis) ==
    IF \/ direction <= QUAD_SECTION_IDX_BOTTOM
       \/ direction = QUAD_SECTION_IDX_OMNI
       \/ forward_axis = "POSITIVE_X"
    THEN direction
    ELSE IF forward_axis = "POSITIVE_Y" THEN ((direction - 1) % 4) + 2
    ELSE IF forward_axis = "NEGATIVE_X" THEN (direction % 4) + 2
    ELSE IF forward_axis = "NEGATIVE_Y" THEN ((direction + 1) % 4) + 2
    ELSE None

sort_quad(positions, bounds_dimensions, forward_axis) ==
    LET local_bounds ==
            sequence_z_to_plates([i \in 0..2 |-> Halve(bounds_dimensions[i])])
    IN  sort_quad_rotate(sort_quad_scan(positions, local_bounds, X), forward_axis)

\* ------------------------------------------------------ definition objects

BOUNDS_NAME_PREFIX == "bounds"
COLLISION_PREFIX == "collision"
GRID_DEF_OBJ_PREFIX_PRIORITY == <<"gridx", "grid-", "gridu", "gridd", "gridb">>

GRID_INSIDE == "x"
GRID_OUTSIDE == "-"
GRID_UP == "u"
GRID_DOWN == "d"
GRID_BOTH == "b"
GRID_DEFINITIONS_PRIORITY == <<GRID_INSIDE, GRID_OUTSIDE, GRID_UP, GRID_DOWN, GRID_BOTH>>

\* The reports of the logger that are modelled, by what they say.
LOG_NOTHING_TO_EXPORT == "Nothing to export."
LOG_MULTIPLE_BOUNDS == "Multiple bounds definitions found."
LOG_DEFINED_BOUNDS_NON_INTEGER == "Defined bounds have a non-integer size, rounding."
LOG_NO_BOUNDS_DEFINITION == "No bounds definition found."
LOG_CALCULATED_BOUNDS_NON_INTEGER == "Calculated bounds has a non-integer size, rounding up."
LOG_COLLISION_OVER_LIMIT == "Collision boxes defined but 10 is the maximum."
LOG_DEFINED_BRICK_SIZE == "Defined brick size in plates."
LOG_CALCULATED_BRICK_SIZE == "Calculated brick size in plates."

\* BrickBounds.__init__ and BLBData.__init__.  A name that is None is
\* modelled by the string "None", which no object of the scenes is called.
NoName == "None"

BrickBounds ==
    [name |-> NoName, dimensions |-> << >>, world_center |-> << >>,
     world_coords_min |-> << >>, world_coords_max |-> << >>]

BLBData ==
    [brick_size |-> << >>, brick_grid |-> << >>, collision |-> << >>,
     coverage |-> << >>, quads |-> << >>]

\* obj.name.lower().startswith(prefix), of the prefix the object's name
\* starts with (obj.prefix, "" when it starts with none of them).
name_startswith(obj, prefix) == obj.prefix = prefix

name_startswith_any(obj, prefixes) == \E k \in DOMAIN prefixes : obj.prefix = prefixes[k]

\* The brick size of a bounds object whose size in plates is not integral:
\* round(const.HUMAN_ERROR * round(value / const.HUMAN_ERROR)).
round_to_human_error(value) ==
    RoundHalfEven(RoundHalfEven(value * HUMAN_ERROR_DEN, Unit), HUMAN_ERROR_DEN)

\* The brick size __process_bounds_object computes from obj.dimensions.
process_bounds_size(dimensions) ==
    LET bounds_size == sequence_z_to_plates(dimensions)
    IN  IF ~are_ints(bounds_size)
        THEN [index \in 0..2 |-> round_to_human_error(bounds_size[index])]
        ELSE force_to_int(bounds_size)

\* The bounds data of a bounds object stored without the name of the object.
process_bounds_object_unnamed(obj) ==
    LET dimensions == to_decimals(obj.dimensions, FLOATING_POINT_PRECISION)
        min_max == record_world_min_max(Vec(Infinity, Infinity, Infinity),
                                        Vec(-Infinity, -Infinity, -Infinity), obj)
        world_coords_min == to_decimals(min_max[1], FLOATING_POINT_PRECISION)
        world_coords_max == to_decimals(min_max[2], FLOATING_POINT_PRECISION)
    IN  [bounds |-> [name |-> NoName,
                     dimensions |-> dimensions,
                     world_center |-> calculate_center(world_coords_min, dimensions),
                     world_coords_min |-> world_coords_min,
                     world_coords_max |-> world_coords_max],
         brick_size |-> process_bounds_size(obj.dimensions)]

\* BLBProcessor.__process_bounds_object: the bounds data and the brick size.
process_bounds_object(obj) ==
    LET dimensions == to_decimals(obj.dimensions, FLOATING_POINT_PRECISION)
        min_max == record_world_min_max(Vec(Infinity, Infinity, Infinity),
                                        Vec(-Infinity, -Infinity, -Infinity), obj)
        world_coords_min == to_decimals(min_max[1], FLOATING_POINT_PRECISION)
        world_coords_max == to_decimals(min_max[2], FLOATING_POINT_PRECISION)
    IN  [bounds |-> [name |-> obj.name,
                     dimensions |-> dimensions,
                     world_center |-> calculate_center(world_coords_min, dimensions),
                     world_coords_min |-> world_coords_min,
                     world_coords_max |-> world_coords_max],
         brick_size |-> process_bounds_size(obj.dimensions)]

\* The warning of __process_bounds_object about a size that is not integral.
process_bounds_log(obj) ==
    IF ~are_ints(sequence_z_to_plates(obj.dimensions))
    THEN <<LOG_DEFINED_BOUNDS_NON_INTEGER>>
    ELSE << >>

\* Whether __calculate_bounds raises: no vertex was recorded, the difference
\* of the infinities is -inf, and quantizing it is an InvalidOperation.
calculate_bounds_raises(min_world_coordinates, max_world_coordinates) ==
    \E i \in 0..2 : min_world_coordinates[i] = Infinity \/ max_world_coordinates[i] = -Infinity

\* The calculated dimensions in plates with the fractions cut off.
calculate_bounds_size_truncated(dimensions) ==
    force_to_int(sequence_z_to_plates(dimensions))

\* The brick size __calculate_bounds computes from the calculated dimensions.
calculate_bounds_size(dimensions) ==
    LET bounds_size == sequence_z_to_plates(dimensions)
    IN  IF ~are_ints(bounds_size)
        THEN [index \in 0..2 |-> Ceil(bounds_size[index])]
        ELSE force_to_int(bounds_size)

\* The warnings of __calculate_bounds: no bounds definition, and a size that
\* is not integral.
calculate_bounds_log(min_world_coordinates, max_world_coordinates) ==
    LET bounds_size ==
            to_decimals([i \in 0..2 |-> max_world_coordinates[i] - min_world_coordinates[i]],
                        FLOATING_POINT_PRECISION)
    IN  IF ~are_ints(sequence_z_to_plates(bounds_size))
        THEN <<LOG_NO_BOUNDS_DEFINITION, LOG_CALCULATED_BOUNDS_NON_INTEGER>>
        ELSE <<LOG_NO_BOUNDS_DEFINITION>>

\* BLBProcessor.__calculate_bounds: the bounds data and the brick size.
calculate_bounds(min_world_coordinates, max_world_coordinates) ==
    LET bounds_size ==
            to_decimals([i \in 0..2 |-> max_world_coordinates[i] - min_world_coordinates[i]],
                        FLOATING_POINT_PRECISION)
        world_coords_min == to_decimals(min_world_coordinates, FLOATING_POINT_PRECISION)
        world_coords_max == to_decimals(max_world_coordinates, FLOATING_POINT_PRECISION)
    IN  [bounds |-> [name |-> NoName,
                     dimensions |-> bounds_size,
                     world_center |-> calculate_center(world_coords_min, bounds_size),
                     world_coords_min |-> world_coords_min,
                     world_coords_max |-> world_coords_max],
         brick_size |-> calculate_bounds_size(bounds_size)]


\* ------------------------------------------------------------- brick grid

\* all_within_bounds(sequence, bounding_dimensions).
all_within_bounds(sequence, bounding_dimensions) ==
    /\ \A index \in DOMAIN sequence : ~(sequence[index] > Halve(bounding_dimensions[index]))
    /\ \A index \in DOMAIN sequence : ~(sequence[index] < -Halve(bounding_dimensions[index]))

\* round_to_plate_coordinates(coordinates, brick_dimensions).
round_to_plate_coordinates(coordinates, brick_dimensions) ==
    [i \in 0..2 |->
        IF i = Z
        THEN IF is_even(DivPlateHeight(brick_dimensions[Z]))
             THEN to_decimal(coordinates[Z], PLATE_HEIGHT)
             ELSE to_decimal(coordinates[Z], PLATE_HEIGHT \div 2)
        ELSE IF is_even(brick_dimensions[i])
             THEN to_decimal(coordinates[i], Unit)
             ELSE to_decimal(coordinates[i], Unit \div 2)]

\* The translation of __grid_object_to_volume of a corner, rounded to plate
\* coordinates, to the index space of the forward axis, before the swaps.
grid_translate(corner, halved_dimensions, forward_axis) ==
    [i \in 0..2 |->
        IF i = X
        THEN IF forward_axis = "NEGATIVE_X" \/ forward_axis = "NEGATIVE_Y"
             THEN corner[X] - halved_dimensions[X]
             ELSE corner[X] + halved_dimensions[X]
        ELSE IF i = Y
             THEN IF forward_axis = "POSITIVE_X" \/ forward_axis = "NEGATIVE_Y"
                  THEN corner[Y] - halved_dimensions[Y]
                  ELSE corner[Y] + halved_dimensions[Y]
             ELSE DivPlateHeight(corner[Z] - halved_dimensions[Z])]

\* The swaps of minimum and maximum without the swizzles that follow them
\* for a forward axis along X.
grid_swap_without_swizzle(translated_min, translated_max, forward_axis) ==
    LET z_min == [translated_min EXCEPT ![Z] = Abs(translated_max[Z])]
        z_max == [translated_max EXCEPT ![Z] = Abs(translated_min[Z])]
    IN  IF forward_axis = "POSITIVE_X"
        THEN <<[z_min EXCEPT ![Y] = Abs(z_max[Y])], [z_max EXCEPT ![Y] = Abs(z_min[Y])]>>
        ELSE IF forward_axis = "NEGATIVE_X"
        THEN <<[z_min EXCEPT ![X] = Abs(z_max[X])], [z_max EXCEPT ![X] = Abs(z_min[X])]>>
        ELSE IF forward_axis = "NEGATIVE_Y"
        THEN <<[z_min EXCEPT ![Y] = Abs(z_max[Y]), ![X] = Abs(z_max[X])],
               [z_max EXCEPT ![Y] = Abs(z_min[Y]), ![X] = Abs(z_min[X])]>>
        ELSE <<z_min, z_max>>

\* The swaps of minimum and maximum and the swizzles of
\* __grid_object_to_volume: the pair of the final grid_min and grid_max.
grid_swap(translated_min, translated_max, forward_axis) ==
    LET z_min == [translated_min EXCEPT ![Z] = Abs(translated_max[Z])]
        z_max == [translated_max EXCEPT ![Z] = Abs(translated_min[Z])]
    IN  IF forward_axis = "POSITIVE_X"
        THEN <<swizzle([z_min EXCEPT ![Y] = Abs(z_max[Y])], ORDER_bac),
               swizzle([z_max EXCEPT ![Y] = Abs(z_min[Y])], ORDER_bac)>>
        ELSE IF forward_axis = "NEGATIVE_X"
        THEN <<swizzle([z_min EXCEPT ![X] = Abs(z_max[X])], ORDER_bac),
               swizzle([z_max EXCEPT ![X] = Abs(z_min[X])], ORDER_bac)>>
        ELSE IF forward_axis = "NEGATIVE_Y"
        THEN <<[z_min EXCEPT ![Y] = Abs(z_max[Y]), ![X] = Abs(z_max[X])],
               [z_max EXCEPT ![Y] = Abs(z_min[Y]), ![X] = Abs(z_min[X])]>>
        ELSE <<z_min, z_max>>

\* BLBProcessor.__grid_object_to_volume: the exception it raises or "ok",
\* and then the index ranges ((min, max), (min, max), (min, max)).
grid_object_to_volume(obj, bounds, forward_axis) ==
    LET halved_dimensions == [i \in 0..2 |-> Halve(bounds.dimensions[i])]
        min_max == record_world_min_max(Vec(Infinity, Infinity, Infinity),
                                        Vec(-Infinity, -Infinity, -Infinity), obj)
        local_min == round_to_plate_coordinates(
                         world_to_local(min_max[1], bounds.world_center), bounds.dimensions)
        local_max == round_to_plate_coordinates(
                         world_to_local(min_max[2], bounds.world_center), bounds.dimensions)
        swapped == grid_swap(grid_translate(local_min, halved_dimensions, forward_axis),
                             grid_translate(local_max, halved_dimensions, forward_axis),
                             forward_axis)
        grid_min == force_to_int(swapped[1])
        grid_max == force_to_int(swapped[2])
    IN  IF /\ all_within_bounds(local_min, bounds.dimensions)
           /\ all_within_bounds(local_max, bounds.dimensions)
        THEN IF \E index \in 0..2 : grid_max[index] - grid_min[index] = 0
             THEN [raised |-> "ZeroSizeException", volume |-> << >>]
             ELSE [raised |-> "ok",
                   volume |-> [i \in 0..2 |-> <<grid_min[i], grid_max[i]>>]]
        ELSE [raised |-> "OutOfBoundsException", volume |-> << >>]

\* range(r[0], r[1]) of an index range <<min, max>>.
Range(r) == r[1]..(r[2] - 1)

\* sequence[i] of Python is defined for -len <= i < len.
ValidIndex(i, len) == -len <= i /\ i < len

WrapIndex(i, len) == IF i < 0 THEN i + len ELSE i

GridLen(f) == Cardinality(DOMAIN f)

\* Whether modify_brick_grid raises an IndexError: one of the slots of the
\* volume is not in the brick grid.
modify_brick_grid_raises(brick_grid, volume) ==
    \E w \in Range(volume[X]), h \in Range(volume[Z]), d \in Range(volume[Y]) :
        \/ ~ValidIndex(w, GridLen(brick_grid))
        \/ ~ValidIndex(h, GridLen(brick_grid[WrapIndex(w, GridLen(brick_grid))]))
        \/ ~ValidIndex(d, GridLen(brick_grid[WrapIndex(w, GridLen(brick_grid))]
                                            [WrapIndex(h, GridLen(brick_grid[WrapIndex(w, GridLen(brick_grid))]))]))

\* modify_brick_grid(brick_grid, volume, symbol), when it does not raise.
modify_brick_grid(brick_grid, volume, symbol) ==
    [w \in DOMAIN brick_grid |->
        [h \in DOMAIN brick_grid[w] |->
            [d \in DOMAIN brick_grid[w][h] |->
                IF /\ \E i \in Range(volume[X]) : WrapIndex(i, GridLen(brick_grid)) = w
                   /\ \E i \in Range(volume[Z]) : WrapIndex(i, GridLen(brick_grid[w])) = h
                   /\ \E i \in Range(volume[Y]) : WrapIndex(i, GridLen(brick_grid[w][h])) = d
                THEN symbol
                ELSE brick_grid[w][h][d]]]]

\* The try block of __process_grid_definitions for the objects from k on: the
\* accepted volumes with the index of their symbol, in the order found.
RECURSIVE grid_definition_volumes(_, _, _, _)
grid_definition_volumes(definition_objects, k, bounds, forward_axis) ==
    IF k > Len(definition_objects)
    THEN << >>
    ELSE LET grid_obj == definition_objects[k]
             index == CHOOSE i \in 0..4 : GRID_DEF_OBJ_PREFIX_PRIORITY[i + 1] = grid_obj.prefix
             converted == grid_object_to_volume(grid_obj, bounds, forward_axis)
             rest == grid_definition_volumes(definition_objects, k + 1, bounds, forward_axis)
         IN  IF converted.raised = "ok"
             THEN <<[index |-> index, volume |-> converted.volume]>> \o rest
             ELSE rest

\* Mutant of paint_order: the volumes are written in the order found.
RECURSIVE paint_order_as_found(_, _)
paint_order_as_found(found, index) ==
    IF index > 0 THEN << >> ELSE found \o paint_order_as_found(found, index + 1)

\* The volumes in the order they are written: by the index of their symbol,
\* and in the order found within one symbol.
RECURSIVE paint_order(_, _)
paint_order(found, index) ==
    IF index > 4
    THEN << >>
    ELSE SelectSeq(found, LAMBDA e : e.index = index) \o paint_order(found, index + 1)

\* The loop that writes the volumes from k on into the brick grid: the
\* grid, or "IndexError".
RECURSIVE paint_volumes(_, _, _)
paint_volumes(brick_grid, ordered, k) ==
    IF k > Len(ordered)
    THEN [raised |-> "ok", brick_grid |-> brick_grid]
    ELSE IF modify_brick_grid_raises(brick_grid, ordered[k].volume)
         THEN [raised |-> "IndexError", brick_grid |-> << >>]
         ELSE paint_volumes(modify_brick_grid(brick_grid, ordered[k].volume,
                                              GRID_DEFINITIONS_PRIORITY[ordered[k].index + 1]),
                            ordered, k + 1)

\* Mutant of default_grid_symbol: the top and the bottom plate are exchanged.
default_grid_symbol_upside_down(h, grid_height) ==
    LET is_top == (h = grid_height - 1)
        is_bottom == (h = 0)
    IN  IF is_bottom /\ is_top THEN GRID_BOTH
        ELSE IF is_bottom THEN GRID_DOWN
        ELSE IF is_top THEN GRID_UP
        ELSE GRID_INSIDE

\* The symbol of the default brick grid at height index h.
default_grid_symbol(h, grid_height) ==
    LET is_top == (h = 0)
        is_bottom == (h = grid_height - 1)
    IN  IF is_bottom /\ is_top THEN GRID_BOTH
        ELSE IF is_bottom THEN GRID_DOWN
        ELSE IF is_top THEN GRID_UP
        ELSE GRID_INSIDE

\* BLBProcessor.__process_grid_definitions: the brick grid, or the exception
\* that leaves it.
process_grid_definitions(definition_objects, bounds, brick_size, forward_axis) ==
    LET found == grid_definition_volumes(definition_objects, 1, bounds, forward_axis)
        along_x == forward_axis = "POSITIVE_X" \/ forward_axis = "NEGATIVE_X"
        grid_width == IF along_x THEN brick_size[X] ELSE brick_size[Y]
        grid_depth == IF along_x THEN brick_size[Y] ELSE brick_size[X]
        grid_height == brick_size[Z]
        empty_grid == [d \in 0..(grid_depth - 1) |->
                          [h \in 0..(grid_height - 1) |->
                              [w \in 0..(grid_width - 1) |-> GRID_OUTSIDE]]]
    IN  IF Len(definition_objects) = 0
        THEN [raised |-> "ok",
              brick_grid |-> [d \in 0..(grid_depth - 1) |->
                                 [h \in 0..(grid_height - 1) |->
                                     [w \in 0..(grid_width - 1) |->
                                         default_grid_symbol(h, grid_height)]]]]
        ELSE paint_volumes(empty_grid, paint_order(found, 0), 1)

\* -------------------------------------------------------------- collision

\* Mutant of collision_box: the center is the sum of the corners, not halved.
collision_box_center_not_halved(obj, bounds) ==
    LET min_max == record_world_min_max(Vec(Infinity, Infinity, Infinity),
                                        Vec(-Infinity, -Infinity, -Infinity), obj)
        col_min == world_to_local(min_max[1], bounds.world_center)
        col_max == world_to_local(min_max[2], bounds.world_center)
        center == [index \in 0..2 |-> col_max[index] + col_min[index]]
        dimensions == [index \in 0..2 |-> col_max[index] - col_min[index]]
    IN  IF Len(obj.vertices) < 2
        THEN << >>
        ELSE IF /\ all_within_bounds(col_min, bounds.dimensions)
                /\ all_within_bounds(col_max, bounds.dimensions)
             THEN IF \E index \in 0..2 : col_max[index] - col_min[index] = 0
                  THEN << >>
                  ELSE <<sequence_z_to_plates(center), sequence_z_to_plates(dimensions)>>
             ELSE << >>

\* The body of the loop of __process_collision_definitions for one object:
\* the box it adds, or << >> when the definition is ignored.
collision_box(obj, bounds) ==
    LET min_max == record_world_min_max(Vec(Infinity, Infinity, Infinity),
                                        Vec(-Infinity, -Infinity, -Infinity), obj)
        col_min == world_to_local(min_max[1], bounds.world_center)
        col_max == world_to_local(min_max[2], bounds.world_center)
        center == [index \in 0..2 |-> Halve(col_max[index] + col_min[index])]
        dimensions == [index \in 0..2 |-> col_max[index] - col_min[index]]
    IN  IF Len(obj.vertices) < 2
        THEN << >>
        ELSE IF /\ all_within_bounds(col_min, bounds.dimensions)
                /\ all_within_bounds(col_max, bounds.dimensions)
             THEN IF \E index \in 0..2 : col_max[index] - col_min[index] = 0
                  THEN << >>
                  ELSE <<sequence_z_to_plates(center), sequence_z_to_plates(dimensions)>>
             ELSE << >>

\* Mutant of collision_loop: the loop does not stop after 10 definitions.
RECURSIVE collision_loop_without_limit(_, _, _, _, _)
collision_loop_without_limit(definition_objects, k, processed, bounds, collision) ==
    IF k > Len(definition_objects)
    THEN collision
    ELSE LET box == collision_box(definition_objects[k], bounds)
         IN  IF box = << >>
             THEN collision_loop_without_limit(definition_objects, k + 1, processed, bounds,
                                               collision)
             ELSE collision_loop_without_limit(definition_objects, k + 1, processed + 1,
                                               bounds, Append(collision, box))

\* The loop of __process_collision_definitions from object k on, with the
\* number of definitions processed so far: the collision list it leaves.
RECURSIVE collision_loop(_, _, _, _, _)
collision_loop(definition_objects, k, processed, bounds, collision) ==
    IF k > Len(definition_objects) \/ processed > 9
    THEN collision
    ELSE LET box == collision_box(definition_objects[k], bounds)
         IN  IF box = << >>
             THEN collision_loop(definition_objects, k + 1, processed, bounds, collision)
             ELSE collision_loop(definition_objects, k + 1, processed + 1, bounds,
                                 Append(collision, box))

\* The error of __process_collision_definitions about more than 10
\* definitions.
process_collision_log(definition_objects) ==
    IF Len(definition_objects) > 10 THEN <<LOG_COLLISION_OVER_LIMIT>> ELSE << >>

\* BLBProcessor.__process_collision_definitions: the collision list after it.
process_collision_definitions(definition_objects, bounds, collision) ==
    collision_loop(definition_objects, 1, 0, bounds, collision)

\* ------------------------------------------------------------- mesh data

\* The loop indices of a polygon: those of a quad, or those of a triangle and
\* its loop_start once more.
polygon_loop_indices(poly) ==
    IF poly.loop_total = 4
    THEN [i \in 1..4 |-> poly.loop_start + i - 1]
    ELSE [i \in 1..4 |-> IF i = 4 THEN poly.loop_start ELSE poly.loop_start + i - 1]

reversed(sequence) == [i \in 1..Len(sequence) |-> sequence[Len(sequence) + 1 - i]]

\* The normal of a vertex, the normal of a polygon, the UV coordinates of a
\* loop and the default UV coordinates, each named by what it belongs to: the
\* objects are not rotated, so that a normal is the one stored.
VertexNormal(vert_index) == [of |-> "vertex", index |-> vert_index]
PolygonNormal(p) == [of |-> "polygon", index |-> p]
LoopUV(loop_index) == [of |-> "loop", index |-> loop_index]
DefaultUV == [of |-> "default", index |-> 0]

\* vert_index_to_normal_vector(obj, index): the normal of the vertex of the
\* loop at the index.
vert_index_to_normal_vector(obj, index) == VertexNormal(obj.loops[index + 1])

\* The quad data with the normals of a smooth polygon in the order of the
\* loop as stored.
polygon_quad_normals_as_stored(obj, p, bounds) ==
    LET poly == obj.polygons[p]
        stored == polygon_loop_indices(poly)
        loop_indices == [i \in 1..4 |-> stored[5 - i]]
    IN  [positions |->
             [i \in 0..3 |->
                 sequence_z_to_plates(
                     world_to_local(obj.vertices[obj.loops[loop_indices[i + 1] + 1] + 1],
                                    bounds.world_center))],
         normals |->
             [i \in 0..3 |-> IF poly.use_smooth
                             THEN vert_index_to_normal_vector(obj, stored[i + 1])
                             ELSE PolygonNormal(p)],
         uvs |->
             [i \in 0..3 |-> IF obj.uv_layers > 0 THEN LoopUV(loop_indices[i + 1])
                             ELSE DefaultUV],
         loop_indices |-> loop_indices,
         source |-> <<obj.name, p>>]

\* The quad data of one polygon of an object: the positions of the reversed
\* loop, local to the bounds and in plates, the normals and the UVs, and the
\* polygon it was made from.
polygon_quad(obj, p, bounds) ==
    LET poly == obj.polygons[p]
        loop_indices == reversed(polygon_loop_indices(poly))
    IN  [positions |->
             [i \in 0..3 |->
                 sequence_z_to_plates(
                     world_to_local(obj.vertices[obj.loops[loop_indices[i + 1] + 1] + 1],
                                    bounds.world_center))],
         normals |->
             [i \in 0..3 |-> IF poly.use_smooth
                             THEN vert_index_to_normal_vector(obj, loop_indices[i + 1])
                             ELSE PolygonNormal(p)],
         uvs |->
             [i \in 0..3 |-> IF obj.uv_layers > 0 THEN LoopUV(loop_indices[i + 1])
                             ELSE DefaultUV],
         loop_indices |-> loop_indices,
         source |-> <<obj.name, p>>]

\* Mutant of object_quads: a polygon of any number of vertices gives a quad.
RECURSIVE object_quads_of_every_polygon(_, _, _)
object_quads_of_every_polygon(obj, p, bounds) ==
    IF p > Len(obj.polygons)
    THEN << >>
    ELSE <<polygon_quad(obj, p, bounds)>> \o object_quads_of_every_polygon(obj, p + 1, bounds)

\* The quads of the polygons of one object from polygon p on.
RECURSIVE object_quads(_, _, _)
object_quads(obj, p, bounds) ==
    IF p > Len(obj.polygons)
    THEN << >>
    ELSE IF obj.polygons[p].loop_total = 4 \/ obj.polygons[p].loop_total = 3
         THEN <<polygon_quad(obj, p, bounds)>> \o object_quads(obj, p + 1, bounds)
         ELSE object_quads(obj, p + 1, bounds)

\* The quads of the meshes from mesh k on, those of a later mesh first.
RECURSIVE mesh_quads_of_later_mesh_first(_, _, _)
mesh_quads_of_later_mesh_first(meshes, k, bounds) ==
    IF k > Len(meshes)
    THEN << >>
    ELSE mesh_quads_of_later_mesh_first(meshes, k + 1, bounds)
             \o object_quads(meshes[k], 1, bounds)

\* The quads of the meshes from mesh k on, in the order they are appended.
RECURSIVE mesh_quads(_, _, _)
mesh_quads(meshes, k, bounds) ==
    IF k > Len(meshes)
    THEN << >>
    ELSE object_quads(meshes[k], 1, bounds) \o mesh_quads(meshes, k + 1, bounds)

\* The section a quad is sorted into.
quad_section(quad, bounds, forward_axis) ==
    sort_quad(quad.positions, bounds.dimensions, forward_axis)

\* BLBProcessor.__process_mesh_data: one list of quads per quad section.
process_mesh_data(meshes, bounds, forward_axis) ==
    LET quads == mesh_quads(meshes, 1, bounds)
    IN  [section \in 0..(QUAD_SECTION_COUNT - 1) |->
            SelectSeq(quads, LAMBDA quad : quad_section(quad, bounds, forward_axis) = section)]


\* ------------------------------------------------------------------- state

VARIABLES
    context,                \* the scene: its objects and the selected objects
    properties,             \* the export properties
    bounds_data,            \* BLBProcessor.__bounds_data
    blb_data,               \* BLBProcessor.__blb_data
    pc,                     \* where the call of process() is
    calls,                  \* the number of calls of process() so far
    object_sequence,        \* process(): the objects to be exported
    obj_index,              \* the object the loop of __process_definition_objects is at
    brick_grid_objects,     \* __process_definition_objects: the locals
    collision_objects,
    mesh_objects,
    min_world_coordinates,
    max_world_coordinates,
    result,                 \* what process() returned: "None", "blb_data" or nothing yet
    log,                    \* the reports of the logger during the call that are modelled
    sortIn,                 \* the arguments of a call of sort_quad
    sortOut,                \* its result, None before the call
    covIn,                  \* the brick size __process_coverage reads
    covOut,                 \* the coverage data it returns, NoArg before the call
    callIn,                 \* the arguments of a call of another function
    callOut                 \* its result, NoArg before the call

processor == <<bounds_data, blb_data>>

locals == <<object_sequence, obj_index, brick_grid_objects, collision_objects, mesh_objects,
            min_world_coordinates, max_world_coordinates>>

functions == <<sortIn, sortOut, covIn, covOut, callIn, callOut>>

vars == <<context, properties, processor, pc, calls, locals, result, log, functions>>

Flags == {0, 1}

\* The coverage settings of the export properties.
CoverageProperties ==
    [calculate_coverage : Flags,
     coverage_top_calculate : Flags, coverage_bottom_calculate : Flags,
     coverage_north_calculate : Flags, coverage_east_calculate : Flags,
     coverage_south_calculate : Flags, coverage_west_calculate : Flags,
     coverage_top_hide : Flags, coverage_bottom_hide : Flags,
     coverage_north_hide : Flags, coverage_east_hide : Flags,
     coverage_south_hide : Flags, coverage_west_hide : Flags]

\* Properties with every coverage setting off.
NoCoverage ==
    [calculate_coverage |-> 0,
     coverage_top_calculate |-> 0, coverage_bottom_calculate |-> 0,
     coverage_north_calculate |-> 0, coverage_east_calculate |-> 0,
     coverage_south_calculate |-> 0, coverage_west_calculate |-> 0,
     coverage_top_hide |-> 0, coverage_bottom_hide |-> 0,
     coverage_north_hide |-> 0, coverage_east_hide |-> 0,
     coverage_south_hide |-> 0, coverage_west_hide |-> 0]

\* Properties with the coverage calculated for the top, the north and the
\* east side, and the bottom, the north and the west side hiding.
SomeCoverage ==
    [calculate_coverage |-> 1,
     coverage_top_calculate |-> 1, coverage_bottom_calculate |-> 0,
     coverage_north_calculate |-> 1, coverage_east_calculate |-> 1,
     coverage_south_calculate |-> 0, coverage_west_calculate |-> 0,
     coverage_top_hide |-> 0, coverage_bottom_hide |-> 1,
     coverage_north_hide |-> 1, coverage_east_hide |-> 0,
     coverage_south_hide |-> 0, coverage_west_hide |-> 1]

WithExport(props, selection, axis) ==
    props @@ [use_selection |-> selection, axis_blb_forward |-> axis]

\* No call of process(), of sort_quad or of __process_coverage is observed.
NoLocals ==
    /\ object_sequence = << >>
    /\ obj_index = 0
    /\ brick_grid_objects = << >>
    /\ collision_objects = << >>
    /\ mesh_objects = << >>
    /\ min_world_coordinates = Vec(Infinity, Infinity, Infinity)
    /\ max_world_coordinates = Vec(-Infinity, -Infinity, -Infinity)

ProcessorIdle ==
    /\ context = [scene_objects |-> << >>, selected_objects |-> << >>]
    /\ bounds_data = BrickBounds
    /\ blb_data = BLBData
    /\ pc = "idle"
    /\ calls = 0
    /\ result = "nothing"
    /\ log = << >>
    /\ NoLocals

SortIdle == sortIn = NoArg /\ sortOut = None

CoverageIdle == covIn = NoArg /\ covOut = NoArg

CallIdle == callIn = NoArg /\ callOut = NoArg

\* ------------------------------------------------ specification: process()

Tenths(n) == n * (Unit \div 10)

\* The 8 vertices of an axis-aligned box, in world coordinates; vertex index
\* i of Blender is element i + 1.
BoxVertices(lo, hi) ==
    <<Vec(lo[X], lo[Y], lo[Z]), Vec(hi[X], lo[Y], lo[Z]),
      Vec(hi[X], hi[Y], lo[Z]), Vec(lo[X], hi[Y], lo[Z]),
      Vec(lo[X], lo[Y], hi[Z]), Vec(hi[X], lo[Y], hi[Z]),
      Vec(hi[X], hi[Y], hi[Z]), Vec(lo[X], hi[Y], hi[Z])>>

\* A mesh object: an unrotated box, so that obj.dimensions is its extent, with
\* the loops (vertex indices) and the polygons (loop_start, loop_total) given.
BoxMesh(name, prefix, lo, hi, loops, polygons) ==
    [name |-> name, prefix |-> prefix, type |-> "MESH",
     vertices |-> BoxVertices(lo, hi),
     dimensions |-> [i \in 0..2 |-> hi[i] - lo[i]],
     loops |-> loops, polygons |-> polygons, uv_layers |-> 0]

\* The object with one UV layer.
WithUVLayer(obj) == [obj EXCEPT !.uv_layers = 1]

\* A flat shaded and a smooth shaded polygon.
Polygon(loop_start, loop_total) ==
    [loop_start |-> loop_start, loop_total |-> loop_total, use_smooth |-> FALSE]

SmoothPolygon(loop_start, loop_total) ==
    [loop_start |-> loop_start, loop_total |-> loop_total, use_smooth |-> TRUE]

\* The objects the scenes are made of.
BoundsObjects ==
    {BoxMesh("bounds", BOUNDS_NAME_PREFIX,
             Vec(-Tenths(10), -Tenths(15), 0), Vec(Tenths(10), Tenths(15), Tenths(16)),
             << >>, << >>),
     BoxMesh("bounds_plate", BOUNDS_NAME_PREFIX,
             Vec(0, 0, 0), Vec(Tenths(10), Tenths(20), Tenths(4)), << >>, << >>),
     BoxMesh("bounds_narrow", BOUNDS_NAME_PREFIX,
             Vec(0, 0, 0), Vec(Tenths(4), Tenths(10), Tenths(4)), << >>, << >>),
     BoxMesh("bounds_uneven", BOUNDS_NAME_PREFIX,
             Vec(0, 0, 0), Vec(Tenths(12), Tenths(10), Tenths(6)), << >>, << >>)}

VisibleObjects ==
    {\* a quad on the +X side, a triangle on the bottom, a 5-gon, a quad on no
     \* side; the triangle and the last quad are smooth, and there are UVs
     WithUVLayer(
         BoxMesh("box", "",
                 Vec(-Tenths(10), -Tenths(15), 0), Vec(Tenths(10), Tenths(15), Tenths(16)),
                 <<1, 2, 6, 5,  0, 1, 2,  0, 1, 2, 3, 4,  0, 1, 6, 7>>,
                 <<Polygon(0, 4), SmoothPolygon(4, 3), Polygon(7, 5),
                   SmoothPolygon(12, 4)>>)),
     \* a plane: no extent on Z
     BoxMesh("plane", "",
             Vec(0, 0, 0), Vec(Tenths(10), Tenths(10), 0),
             <<0, 1, 2, 3>>, <<Polygon(0, 4)>>),
     \* extents that are no whole number of plates, off the quantum by 0.0000004
     BoxMesh("wedge", "",
             Vec(4, 0, 0), Vec(Tenths(13), Tenths(10) + 4, Tenths(10)),
             <<4, 5, 6,  0, 3, 2, 1,  0, 1, 2, 3, 4, 5>>,
             <<SmoothPolygon(0, 3), Polygon(3, 4), Polygon(7, 6)>>)}

OtherObjects ==
    {[name |-> "bounds_empty", prefix |-> BOUNDS_NAME_PREFIX, type |-> "EMPTY",
      vertices |-> << >>, dimensions |-> Vec(0, 0, 0), loops |-> << >>, polygons |-> << >>,
      uv_layers |-> 0]}

SceneObjects == BoundsObjects \cup VisibleObjects \cup OtherObjects

\* The scenes: up to MaxObjects different objects, the oldest last.
Scenes ==
    {objects \in UNION {[1..n -> SceneObjects] : n \in 0..MaxObjects} :
        \A i, j \in DOMAIN objects : i # j => objects[i] # objects[j]}

\* Nothing is selected, or the oldest object is.
Selections(objects) ==
    {<< >>} \cup {<<objects[Len(objects)]>> : n \in {Len(objects)} \ {0}}

Init ==
    /\ \E objects \in Scenes : \E selected \in Selections(objects) :
           context = [scene_objects |-> objects, selected_objects |-> selected]
    /\ properties \in {WithExport(p, selection, axis) :
                           p \in {NoCoverage, SomeCoverage}, selection \in Flags,
                           axis \in ForwardAxes}
    /\ bounds_data = BrickBounds
    /\ blb_data = BLBData
    /\ pc = "idle"
    /\ calls = 0
    /\ result = "nothing"
    /\ log = << >>
    /\ NoLocals
    /\ SortIdle
    /\ CoverageIdle
    /\ CallIdle

\* The selected objects where the selection is to be used, whether any object
\* is selected or not.
get_object_sequence_of_selection_only(ctx, props) ==
    IF props.use_selection # 0 THEN ctx.selected_objects ELSE ctx.scene_objects

\* BLBProcessor.__get_object_sequence.
get_object_sequence(ctx, props) ==
    LET objects == IF props.use_selection # 0 THEN ctx.selected_objects ELSE << >>
    IN  IF Len(objects) = 0 THEN ctx.scene_objects ELSE objects

\* process() is called: the objects are determined and, if there are any,
\* __process_definition_objects starts on its locals.
Process ==
    /\ pc \in {"idle", "returned", "raised"}
    /\ calls < MaxCalls
    /\ calls' = calls + 1
    /\ object_sequence' = get_object_sequence(context, properties)
    /\ IF Len(object_sequence') > 0
       THEN /\ pc' = "definitions"
            /\ result' = "nothing"
            /\ obj_index' = Len(object_sequence')
            /\ brick_grid_objects' = << >>
            /\ collision_objects' = << >>
            /\ mesh_objects' = << >>
            /\ min_world_coordinates' = Vec(Infinity, Infinity, Infinity)
            /\ max_world_coordinates' = Vec(-Infinity, -Infinity, -Infinity)
            /\ log' = << >>
       ELSE /\ pc' = "returned"
            /\ result' = "None"
            /\ log' = <<LOG_NOTHING_TO_EXPORT>>
            /\ UNCHANGED <<obj_index, brick_grid_objects, collision_objects, mesh_objects,
                           min_world_coordinates, max_world_coordinates>>
    /\ UNCHANGED <<context, properties, processor, functions>>

\* One turn of the loop of __process_definition_objects, from the last object
\* of the sequence (the oldest) to the first.
ClassifyObject ==
    /\ pc = "definitions"
    /\ obj_index > 0
    /\ obj_index' = obj_index - 1
    /\ LET obj == object_sequence[obj_index]
       IN  IF obj.type # "MESH"
           THEN UNCHANGED <<processor, log, brick_grid_objects, collision_objects,
                            mesh_objects, min_world_coordinates, max_world_coordinates>>
           ELSE IF name_startswith(obj, BOUNDS_NAME_PREFIX)
           THEN /\ IF bounds_data.name = NoName
                   THEN /\ bounds_data' = process_bounds_object(obj).bounds
                        /\ blb_data' = [blb_data EXCEPT
                                            !.brick_size = process_bounds_object(obj).brick_size]
                        /\ log' = (log \o process_bounds_log(obj))
                                       \o <<LOG_DEFINED_BRICK_SIZE>>
                   ELSE /\ UNCHANGED processor
                        /\ log' = Append(log, LOG_MULTIPLE_BOUNDS)
                /\ UNCHANGED <<brick_grid_objects, collision_objects, mesh_objects,
                               min_world_coordinates, max_world_coordinates>>
           ELSE IF name_startswith_any(obj, GRID_DEF_OBJ_PREFIX_PRIORITY)
           THEN /\ brick_grid_objects' = Append(brick_grid_objects, obj)
                /\ UNCHANGED <<processor, log, collision_objects, mesh_objects,
                               min_world_coordinates, max_world_coordinates>>
           ELSE IF name_startswith(obj, COLLISION_PREFIX)
           THEN /\ collision_objects' = Append(collision_objects, obj)
                /\ UNCHANGED <<processor, log, brick_grid_objects, mesh_objects,
                               min_world_coordinates, max_world_coordinates>>
           ELSE /\ mesh_objects' = Append(mesh_objects, obj)
                /\ IF bounds_data.name = NoName
                   THEN /\ min_world_coordinates' =
                               record_world_min_max(min_world_coordinates,
                                                    max_world_coordinates, obj)[1]
                        /\ max_world_coordinates' =
                               record_world_min_max(min_world_coordinates,
                                                    max_world_coordinates, obj)[2]
                   ELSE UNCHANGED <<min_world_coordinates, max_world_coordinates>>
                /\ UNCHANGED <<processor, log, brick_grid_objects, collision_objects>>
    /\ UNCHANGED <<context, properties, pc, calls, object_sequence, result, functions>>

\* The end of the loop: without a bounds object the bounds are calculated,
\* which raises when no vertex was recorded.
CalculateBounds ==
    /\ pc = "definitions"
    /\ obj_index = 0
    /\ IF bounds_data.name = NoName
       THEN IF calculate_bounds_raises(min_world_coordinates, max_world_coordinates)
            THEN /\ pc' = "raised"
                 /\ log' = Append(log, LOG_NO_BOUNDS_DEFINITION)
                 /\ UNCHANGED processor
            ELSE /\ pc' = "grid"
                 /\ log' = (log \o calculate_bounds_log(min_world_coordinates,
                                                        max_world_coordinates))
                                \o <<LOG_CALCULATED_BRICK_SIZE>>
                 /\ bounds_data' = calculate_bounds(min_world_coordinates,
                                                    max_world_coordinates).bounds
                 /\ blb_data' = [blb_data EXCEPT
                                     !.brick_size = calculate_bounds(min_world_coordinates,
                                                                     max_world_coordinates).brick_size]
       ELSE /\ pc' = "grid"
            /\ UNCHANGED <<processor, log>>
    /\ UNCHANGED <<context, properties, calls, locals, result, functions>>

ProcessGridDefinitions ==
    /\ pc = "grid"
    /\ LET grid == process_grid_definitions(brick_grid_objects, bounds_data,
                                            blb_data.brick_size, properties.axis_blb_forward)
       IN  IF grid.raised = "ok"
           THEN /\ pc' = "collision"
                /\ blb_data' = [blb_data EXCEPT !.brick_grid = grid.brick_grid]
           ELSE /\ pc' = "raised"
                /\ UNCHANGED blb_data
    /\ UNCHANGED <<context, properties, bounds_data, calls, locals, result, log, functions>>

ProcessCollisionDefinitions ==
    /\ pc = "collision"
    /\ pc' = "coverage"
    /\ blb_data' = [blb_data EXCEPT
                        !.collision = process_collision_definitions(collision_objects,
                                                                    bounds_data, @)]
    /\ log' = log \o process_collision_log(collision_objects)
    /\ UNCHANGED <<context, properties, bounds_data, calls, locals, result, functions>>

ProcessCoverage ==
    /\ pc = "coverage"
    /\ pc' = "mesh"
    /\ blb_data' = [blb_data EXCEPT
                        !.coverage = process_coverage(properties, blb_data.brick_size)]
    /\ UNCHANGED <<context, properties, bounds_data, calls, locals, result, log, functions>>

\* The mesh data is processed and process() returns the BLB data.
ProcessMeshData ==
    /\ pc = "mesh"
    /\ pc' = "returned"
    /\ result' = "blb_data"
    /\ blb_data' = [blb_data EXCEPT
                        !.quads = process_mesh_data(mesh_objects, bounds_data,
                                                    properties.axis_blb_forward)]
    /\ UNCHANGED <<context, properties, bounds_data, calls, locals, log, functions>>

Next ==
    \/ Process
    \/ ClassifyObject
    \/ CalculateBounds
    \/ ProcessGridDefinitions
    \/ ProcessCollisionDefinitions
    \/ ProcessCoverage
    \/ ProcessMeshData

Spec == Init /\ [][Next]_vars

\* ----------------------------------------------- specification: sort_quad

\* The coordinates of the 4 vertices of a quad on one axis: all 4 on one of the
\* multiples of 0.5 (plates on Z), or one of two spreads that are not planar.
AxisCoordinates ==
    {[v \in 0..3 |-> k * (Unit \div 2)] : k \in (-MaxHalfSteps)..MaxHalfSteps}
    \cup {[v \in 0..3 |-> IF v < 2 THEN Unit \div 2 ELSE -(Unit \div 2)],
          [v \in 0..3 |-> IF v < 3 THEN Unit \div 2 ELSE 0]}

\* Bounds dimensions of 1..MaxBrick units (X, Y) and plates (Z).
SortDimensions ==
    {Vec(x * Unit, y * Unit, z * PLATE_HEIGHT) : x \in 1..MaxBrick, y \in 1..MaxBrick, z \in 1..MaxBrick}

InitSort ==
    /\ \E cx \in AxisCoordinates, cy \in AxisCoordinates, cz \in AxisCoordinates,
          dims \in SortDimensions, axis \in ForwardAxes :
          sortIn = [positions |-> [v \in 0..3 |-> Vec(cx[v], cy[v], cz[v])],
                    dimensions |-> dims,
                    forward_axis |-> axis]
    /\ sortOut = None
    /\ properties = WithExport(NoCoverage, 0, "POSITIVE_X")
    /\ ProcessorIdle
    /\ CoverageIdle
    /\ CallIdle

SortQuad ==
    /\ sortIn # NoArg
    /\ sortOut = None
    /\ sortOut' = sort_quad(sortIn.positions, sortIn.dimensions, sortIn.forward_axis)
    /\ UNCHANGED <<context, properties, processor, pc, calls, locals, result, log, sortIn, covIn, covOut, callIn, callOut>>

NextSort == SortQuad

SpecSort == InitSort /\ [][NextSort]_vars

\* --------------------------------------- specification: calculate_coverage

InitCoverage ==
    /\ properties \in {WithExport(p, 0, axis) : p \in CoverageProperties, axis \in ForwardAxes}
    /\ covIn \in {Vec(x, y, z) : x \in 1..MaxBrick, y \in 1..MaxBrick, z \in 1..MaxBrick}
    /\ covOut = NoArg
    /\ ProcessorIdle
    /\ SortIdle
    /\ CallIdle

CallProcessCoverage ==
    /\ covIn # NoArg
    /\ covOut = NoArg
    /\ covOut' = process_coverage(properties, covIn)
    /\ UNCHANGED <<context, properties, processor, pc, calls, locals, result, log, sortIn, sortOut, covIn, callIn, callOut>>

NextCoverage == CallProcessCoverage

SpecCoverage == InitCoverage /\ [][NextCoverage]_vars

\* ------------------------------------------------------ claims: sort_quad

\* The bounding plane value of an axis: half the bounds dimension, in plates
\* on Z.
HalfBound(dims, a) ==
    IF a = Z THEN (Halve(dims[Z]) * PLATE_HEIGHT_DEN) \div PLATE_HEIGHT_NUM
    ELSE Halve(dims[a])

\* All 4 vertices share the coordinate on axis a and it is +half or -half.
OnBoundingPlane(positions, dims, a) ==
    /\ \A v \in 1..3 : positions[v][a] = positions[0][a]
    /\ \/ positions[0][a] = HalfBound(dims, a)
       \/ positions[0][a] = -HalfBound(dims, a)

\* The face of axis a on the side of the coordinate c.
FaceOf(dims, a, c) ==
    IF c = HalfBound(dims, a)
    THEN (CASE a = X -> QUAD_SECTION_IDX_EAST
            [] a = Y -> QUAD_SECTION_IDX_NORTH
            [] OTHER -> QUAD_SECTION_IDX_TOP)
    ELSE (CASE a = X -> QUAD_SECTION_IDX_WEST
            [] a = Y -> QUAD_SECTION_IDX_SOUTH
            [] OTHER -> QUAD_SECTION_IDX_BOTTOM)

\* The section of the first axis, in the order X, Y, Z, on a bounding plane.
RawSection(positions, dims) ==
    IF \E a \in 0..2 : OnBoundingPlane(positions, dims, a)
    THEN LET a == CHOOSE a \in 0..2 :
                      /\ OnBoundingPlane(positions, dims, a)
                      /\ \A b \in 0..(a - 1) : ~OnBoundingPlane(positions, dims, b)
         IN  FaceOf(dims, a, positions[0][a])
    ELSE QUAD_SECTION_IDX_OMNI

\* The cyclic order North, East, South, West and a section advanced in it.
CyclicOrder == <<QUAD_SECTION_IDX_NORTH, QUAD_SECTION_IDX_EAST,
                 QUAD_SECTION_IDX_SOUTH, QUAD_SECTION_IDX_WEST>>

Advanced(section, steps) ==
    IF \E k \in 1..4 : CyclicOrder[k] = section
    THEN LET k == CHOOSE k \in 1..4 : CyclicOrder[k] = section
         IN  CyclicOrder[((k - 1 + steps) % 4) + 1]
    ELSE section

RotationSteps(axis) ==
    CASE axis = "POSITIVE_X" -> 0
      [] axis = "POSITIVE_Y" -> 1
      [] axis = "NEGATIVE_X" -> 2
      [] axis = "NEGATIVE_Y" -> 3

SortDone == sortIn # NoArg /\ sortOut # None

\* C4: with forward axis +X, sort_quad returns the face of the first axis, in
\* the order X, Y, Z, on which the 4 vertices share a coordinate that is the
\* +half or -half bound of the axis, and Omni if there is none; a planar axis
\* off the bounding planes does not stop the scan.
C4_FirstBoundingAxisWins ==
    (SortDone /\ sortIn.forward_axis = "POSITIVE_X")
        => sortOut = RawSection(sortIn.positions, sortIn.dimensions)

\* C4 witness: a quad planar on X off the bounding planes and on the -Y
\* bounding plane was sorted South.
C4_Witness ==
    /\ SortDone
    /\ sortIn.forward_axis = "POSITIVE_X"
    /\ \A v \in 0..3 : sortIn.positions[v][X] = 0
    /\ HalfBound(sortIn.dimensions, X) # 0
    /\ \A v \in 0..3 : sortIn.positions[v][Y] = -HalfBound(sortIn.dimensions, Y)
    /\ sortOut = QUAD_SECTION_IDX_SOUTH

\* C5: sort_quad returns the raw section advanced in the cyclic order North,
\* East, South, West by 0 steps for +X, 1 for +Y, 2 for -X and 3 for -Y; Top,
\* Bottom and Omni are returned unchanged for every forward axis.
C5_RotationBySteps ==
    SortDone
        => sortOut = Advanced(RawSection(sortIn.positions, sortIn.dimensions),
                              RotationSteps(sortIn.forward_axis))

\* C5 witness: under -Y a quad on the -X bounding plane (raw West) was sorted
\* South.
C5_Witness ==
    /\ SortDone
    /\ sortIn.forward_axis = "NEGATIVE_Y"
    /\ RawSection(sortIn.positions, sortIn.dimensions) = QUAD_SECTION_IDX_WEST
    /\ sortOut = QUAD_SECTION_IDX_SOUTH

\* A quad whose 4 vertices all have local X equal to +half_width.
OnPositiveX ==
    /\ SortDone
    /\ \A v \in 0..3 : sortIn.positions[v][X] = HalfBound(sortIn.dimensions, X)

\* C6 as stated: a quad with all 4 vertices at local X = +half_width is sorted
\* East under forward axis +X and North under forward axis +Y.
C6_EastThenNorth ==
    OnPositiveX
        => /\ sortIn.forward_axis = "POSITIVE_X" => sortOut = QUAD_SECTION_IDX_EAST
           /\ sortIn.forward_axis = "POSITIVE_Y" => sortOut = QUAD_SECTION_IDX_NORTH

\* C6 amended: a quad with all 4 vertices at local X = +half_width is sorted
\* East under forward axis +X and South under forward axis +Y.
C6_EastThenSouth ==
    OnPositiveX
        => /\ sortIn.forward_axis = "POSITIVE_X" => sortOut = QUAD_SECTION_IDX_EAST
           /\ sortIn.forward_axis = "POSITIVE_Y" => sortOut = QUAD_SECTION_IDX_SOUTH

\* C6 witness: such a quad was sorted under +Y, into South.
C6_Witness ==
    /\ OnPositiveX
    /\ sortIn.forward_axis = "POSITIVE_Y"
    /\ sortOut = QUAD_SECTION_IDX_SOUTH

\* ------------------------------- claims: sort_quad and calculate_coverage

\* The brick size of whole-numbered bounds dimensions: studs on X and Y,
\* plates on Z.
BrickSizeOf(dims) ==
    LET plates == sequence_z_to_plates(dims) IN [i \in 0..2 |-> plates[i] \div Unit]

\* The coverage of the brick of the sorted quad, with the calculation
\* requested for all 6 sides.
CoverageOfAllSides ==
    calculate_coverage(BrickSizeOf(sortIn.dimensions), [i \in 0..5 |-> 1],
                       [i \in 0..5 |-> 0], sortIn.forward_axis)

\* The quad lies on a bounding plane of axis a and of no other axis: it is a
\* boundary quad of one face of the brick.
OnFaceOfAxis(a) ==
    /\ OnBoundingPlane(sortIn.positions, sortIn.dimensions, a)
    /\ \A b \in 0..2 : b # a => ~OnBoundingPlane(sortIn.positions, sortIn.dimensions, b)

\* The area of a face of the brick that is perpendicular to axis a.
FaceArea(a) ==
    LET size == BrickSizeOf(sortIn.dimensions)
    IN  CASE a = X -> size[Y] * size[Z]
          [] a = Y -> size[X] * size[Z]
          [] OTHER -> size[X] * size[Y]

\* C30: for each of the four forward axes, with the calculation requested for
\* all sides, the coverage area at the section index sort_quad gives to the
\* boundary quads of a face of the brick is the area of that face.
C30_CoverageAreaOfSortedFace ==
    SortDone =>
        \A a \in 0..2 :
            OnFaceOfAxis(a) =>
                /\ sortOut \in 0..5
                /\ CoverageOfAllSides[sortOut][2] = FaceArea(a)

\* C30 witness: under -Y a quad on the +X face of a brick whose X and Y sizes
\* differ was sorted North, and the North coverage area is Y * Z.
C30_Witness ==
    /\ SortDone
    /\ sortIn.forward_axis = "NEGATIVE_Y"
    /\ OnFaceOfAxis(X)
    /\ sortIn.positions[0][X] = HalfBound(sortIn.dimensions, X)
    /\ BrickSizeOf(sortIn.dimensions)[X] # BrickSizeOf(sortIn.dimensions)[Y]
    /\ sortOut = QUAD_SECTION_IDX_NORTH
    /\ CoverageOfAllSides[QUAD_SECTION_IDX_NORTH][2] = FaceArea(X)
    /\ FaceArea(X) # FaceArea(Y)

\* ---------------------------------------------- claims: calculate_coverage

CoverageDone == covIn # NoArg /\ covOut # NoArg

\* The user's settings for the side with section index i.
UserCalculate(i) ==
    CASE i = QUAD_SECTION_IDX_TOP -> properties.coverage_top_calculate
      [] i = QUAD_SECTION_IDX_BOTTOM -> properties.coverage_bottom_calculate
      [] i = QUAD_SECTION_IDX_NORTH -> properties.coverage_north_calculate
      [] i = QUAD_SECTION_IDX_EAST -> properties.coverage_east_calculate
      [] i = QUAD_SECTION_IDX_SOUTH -> properties.coverage_south_calculate
      [] i = QUAD_SECTION_IDX_WEST -> properties.coverage_west_calculate

UserHide(i) ==
    CASE i = QUAD_SECTION_IDX_TOP -> properties.coverage_top_hide
      [] i = QUAD_SECTION_IDX_BOTTOM -> properties.coverage_bottom_hide
      [] i = QUAD_SECTION_IDX_NORTH -> properties.coverage_north_hide
      [] i = QUAD_SECTION_IDX_EAST -> properties.coverage_east_hide
      [] i = QUAD_SECTION_IDX_SOUTH -> properties.coverage_south_hide
      [] i = QUAD_SECTION_IDX_WEST -> properties.coverage_west_hide

\* The area of the side with section index i: X*Y for Top and Bottom, X*Z for
\* North and South, Y*Z for East and West.
SideArea(i) ==
    CASE i \in {QUAD_SECTION_IDX_TOP, QUAD_SECTION_IDX_BOTTOM} -> covIn[X] * covIn[Y]
      [] i \in {QUAD_SECTION_IDX_NORTH, QUAD_SECTION_IDX_SOUTH} -> covIn[X] * covIn[Z]
      [] i \in {QUAD_SECTION_IDX_EAST, QUAD_SECTION_IDX_WEST} -> covIn[Y] * covIn[Z]

\* The entry of side i as the user's settings for that side define it.
SideEntry(i) ==
    <<UserHide(i), IF UserCalculate(i) = 1 THEN SideArea(i) ELSE DEFAULT_COVERAGE>>

\* C7: the coverage always has exactly 6 entries; with the calculation
\* disabled every entry is (hide_adjacent = false, area = DEFAULT_COVERAGE),
\* whatever the brick size and the forward axis.
C7_SixEntriesDefaultWhenDisabled ==
    CoverageDone
        => /\ DOMAIN covOut = 0..5
           /\ properties.calculate_coverage = 0
                  => \A i \in 0..5 : covOut[i] = <<0, DEFAULT_COVERAGE>>

\* C7 witness: the coverage was computed with the calculation disabled, for a
\* non-cubic brick under +Y, while the user's side settings were on.
C7_Witness ==
    /\ CoverageDone
    /\ properties.calculate_coverage = 0
    /\ properties.axis_blb_forward = "POSITIVE_Y"
    /\ covIn[X] # covIn[Y]
    /\ \A i \in 0..5 : UserCalculate(i) = 1 /\ UserHide(i) = 1

\* C8 as stated: with the calculation enabled, the entry of each of the 6
\* sides has the area of that side if the user requested its calculation, else
\* DEFAULT_COVERAGE, and the user's hide flag of that same side.
C8_EntryOfSameSide ==
    (CoverageDone /\ properties.calculate_coverage = 1)
        => \A i \in 0..5 : covOut[i] = SideEntry(i)

\* C8 amended: that holds when the forward axis is +X or -X.
C8_EntryOfSameSideForwardX ==
    (/\ CoverageDone
     /\ properties.calculate_coverage = 1
     /\ properties.axis_blb_forward \in {"POSITIVE_X", "NEGATIVE_X"})
        => \A i \in 0..5 : covOut[i] = SideEntry(i)

\* C8 witness: under -X the coverage was calculated for a brick that is no
\* cube, with the settings differing between the sides.
C8_Witness ==
    /\ CoverageDone
    /\ properties.calculate_coverage = 1
    /\ properties.axis_blb_forward = "NEGATIVE_X"
    /\ covIn[X] # covIn[Y]
    /\ UserCalculate(QUAD_SECTION_IDX_NORTH) = 1
    /\ UserCalculate(QUAD_SECTION_IDX_EAST) = 1
    /\ UserCalculate(QUAD_SECTION_IDX_SOUTH) = 0
    /\ UserHide(QUAD_SECTION_IDX_WEST) = 1
    /\ UserHide(QUAD_SECTION_IDX_NORTH) = 0
    /\ covOut[QUAD_SECTION_IDX_NORTH] # covOut[QUAD_SECTION_IDX_EAST]

\* C9 as stated: with coverage enabled the +X entries are returned unchanged
\* for +X and -X, and for +Y and -Y in the order (Top, Bottom, West, North,
\* South, East).
C9_OrderWestNorthSouthEast ==
    (CoverageDone /\ properties.calculate_coverage = 1)
        => IF properties.axis_blb_forward \in {"POSITIVE_X", "NEGATIVE_X"}
           THEN \A i \in 0..5 : covOut[i] = SideEntry(i)
           ELSE /\ covOut[0] = SideEntry(QUAD_SECTION_IDX_TOP)
                /\ covOut[1] = SideEntry(QUAD_SECTION_IDX_BOTTOM)
                /\ covOut[2] = SideEntry(QUAD_SECTION_IDX_WEST)
                /\ covOut[3] = SideEntry(QUAD_SECTION_IDX_NORTH)
                /\ covOut[4] = SideEntry(QUAD_SECTION_IDX_SOUTH)
                /\ covOut[5] = SideEntry(QUAD_SECTION_IDX_EAST)

\* C9 amended: for +Y and -Y the +X entries are returned in the order (Top,
\* Bottom, West, North, East, South): index 4 holds the +X East entry and
\* index 5 the +X South entry.
C9_OrderWestNorthEastSouth ==
    (CoverageDone /\ properties.calculate_coverage = 1)
        => IF properties.axis_blb_forward \in {"POSITIVE_X", "NEGATIVE_X"}
           THEN \A i \in 0..5 : covOut[i] = SideEntry(i)
           ELSE /\ covOut[0] = SideEntry(QUAD_SECTION_IDX_TOP)
                /\ covOut[1] = SideEntry(QUAD_SECTION_IDX_BOTTOM)
                /\ covOut[2] = SideEntry(QUAD_SECTION_IDX_WEST)
                /\ covOut[3] = SideEntry(QUAD_SECTION_IDX_NORTH)
                /\ covOut[4] = SideEntry(QUAD_SECTION_IDX_EAST)
                /\ covOut[5] = SideEntry(QUAD_SECTION_IDX_SOUTH)

\* C9 witness: under -Y the entries were permuted, the East and the South
\* entry differing.
C9_Witness ==
    /\ CoverageDone
    /\ properties.calculate_coverage = 1
    /\ properties.axis_blb_forward = "NEGATIVE_Y"
    /\ SideEntry(QUAD_SECTION_IDX_EAST) # SideEntry(QUAD_SECTION_IDX_SOUTH)
    /\ covOut[4] = SideEntry(QUAD_SECTION_IDX_EAST)
    /\ covOut[5] = SideEntry(QUAD_SECTION_IDX_SOUTH)

\* ----------------------------------------------------- claims: process()

\* process() has returned the BLB data of this call.
Returned == pc = "returned" /\ result = "blb_data"

\* The definition objects are processed: the bounds are resolved.
BoundsResolved == pc \in {"grid", "collision", "coverage", "mesh"} \/ Returned

IsBoundsObject(obj) == obj.type = "MESH" /\ obj.prefix = BOUNDS_NAME_PREFIX

IsGridObject(obj) ==
    obj.type = "MESH" /\ \E k \in DOMAIN GRID_DEF_OBJ_PREFIX_PRIORITY :
                             obj.prefix = GRID_DEF_OBJ_PREFIX_PRIORITY[k]

IsVisibleMesh(obj) == obj.type = "MESH" /\ obj.prefix = ""

\* The bounds object the export uses: the oldest one of the sequence.
HasBoundsObject == \E k \in DOMAIN object_sequence : IsBoundsObject(object_sequence[k])

TheBoundsObject ==
    object_sequence[CHOOSE k \in DOMAIN object_sequence :
                        /\ IsBoundsObject(object_sequence[k])
                        /\ \A j \in DOMAIN object_sequence :
                               IsBoundsObject(object_sequence[j]) => j <= k]

VisibleVertices ==
    UNION {{object_sequence[k].vertices[n] : n \in DOMAIN object_sequence[k].vertices} :
               k \in {j \in DOMAIN object_sequence : IsVisibleMesh(object_sequence[j])}}

\* The extent of the geometry the bounds are resolved from.
GeometryExtent ==
    IF HasBoundsObject
    THEN TheBoundsObject.dimensions
    ELSE [i \in 0..2 |-> SetMax({v[i] : v \in VisibleVertices})
                         - SetMin({v[i] : v \in VisibleVertices})]

PositiveBrickSize ==
    /\ DOMAIN blb_data.brick_size = 0..2
    /\ \A i \in 0..2 : blb_data.brick_size[i] \in Nat \ {0}

\* C1: once the bounds are resolved, from a bounds object or from the visible
\* meshes, geometry of positive extent on every axis has a brick size of
\* three positive integers.
C1_PositiveSizeOfPositiveExtent ==
    (BoundsResolved /\ (HasBoundsObject \/ VisibleVertices # {}))
        => ((\A i \in 0..2 : GeometryExtent[i] > 0) => PositiveBrickSize)

\* C2: process() never returns BLB data whose brick size has a component that
\* is not positive.
C2_NoReturnOfNonPositiveSize == Returned => PositiveBrickSize

\* The polygons of the visible meshes, as (object name, polygon index).
VisiblePolygons(totals) ==
    UNION {{<<object_sequence[k].name, p>> :
                p \in {q \in DOMAIN object_sequence[k].polygons :
                           object_sequence[k].polygons[q].loop_total \in totals}} :
               k \in {j \in DOMAIN object_sequence : IsVisibleMesh(object_sequence[j])}}

\* The places of the sorted quads that hold a record made from a polygon.
RecordsOf(polygon) ==
    {place \in UNION {{<<section, n>> : n \in DOMAIN blb_data.quads[section]} :
                          section \in DOMAIN blb_data.quads} :
         blb_data.quads[place[1]][place[2]].source = polygon}

RECURSIVE SumLen(_, _)
SumLen(lists, sections) ==
    IF sections = {} THEN 0
    ELSE LET section == CHOOSE x \in sections : TRUE
         IN  Len(lists[section]) + SumLen(lists, sections \ {section})

\* C3: the returned quads are 7 lists; every polygon of 3 or 4 vertices has
\* exactly one record, in exactly one list; a polygon of 5 or more vertices
\* has none; the lists together hold as many records as there are polygons of
\* 3 or 4 vertices.
C3_OneRecordPerTriangleOrQuad ==
    Returned =>
        /\ DOMAIN blb_data.quads = 0..6
        /\ \A polygon \in VisiblePolygons({3, 4}) : Cardinality(RecordsOf(polygon)) = 1
        /\ \A polygon \in VisiblePolygons(5..8) : RecordsOf(polygon) = {}
        /\ SumLen(blb_data.quads, DOMAIN blb_data.quads)
               = Cardinality(VisiblePolygons({3, 4}))

\* A mesh with a triangle, quads and an n-gon was exported, and its quads are
\* in more than one list.
C3_Witness ==
    /\ Returned
    /\ VisiblePolygons({3}) # {}
    /\ VisiblePolygons({4}) # {}
    /\ VisiblePolygons(5..8) # {}
    /\ Cardinality({section \in DOMAIN blb_data.quads : Len(blb_data.quads[section]) > 0}) > 1

NoGridObjects == \A k \in DOMAIN object_sequence : ~IsGridObject(object_sequence[k])

GridProcessed == pc \in {"collision", "coverage", "mesh"} \/ Returned

GridHeight == blb_data.brick_size[Z]

\* C10: without grid definition objects, every cell of the brick grid of a
\* brick one plate high is 'both'; of a higher brick the cells at height 0 are
\* 'up', those at the last height 'down' and those between 'inside'; no cell
\* is 'outside'.
C10_DefaultGridByHeight ==
    (GridProcessed /\ NoGridObjects) =>
        \A d \in DOMAIN blb_data.brick_grid :
            /\ DOMAIN blb_data.brick_grid[d] = 0..(GridHeight - 1)
            /\ \A h \in DOMAIN blb_data.brick_grid[d] :
                   \A w \in DOMAIN blb_data.brick_grid[d][h] :
                       LET symbol == blb_data.brick_grid[d][h][w]
                       IN  /\ symbol # GRID_OUTSIDE
                           /\ GridHeight = 1 => symbol = GRID_BOTH
                           /\ (GridHeight >= 2 /\ h = 0) => symbol = GRID_UP
                           /\ (GridHeight >= 2 /\ h = GridHeight - 1) => symbol = GRID_DOWN
                           /\ (GridHeight >= 2 /\ 0 < h /\ h < GridHeight - 1)
                                  => symbol = GRID_INSIDE

\* A default grid of a brick more than two plates high, with an inside plate
\* between the top and the bottom plate.
C10_Witness ==
    /\ GridProcessed
    /\ NoGridObjects
    /\ GridHeight > 2
    /\ blb_data.brick_grid # << >>
    /\ blb_data.brick_grid[0][0][0] = GRID_UP
    /\ blb_data.brick_grid[0][1][0] = GRID_INSIDE
    /\ blb_data.brick_grid[0][GridHeight - 1][0] = GRID_DOWN

\* The objects to export: the selected ones where the selection is to be used
\* and is not empty, all objects of the scene otherwise.
ResolvedObjects ==
    IF properties.use_selection # 0 /\ context.selected_objects # << >>
    THEN context.selected_objects
    ELSE context.scene_objects

\* C18: process() returns None exactly when there is no object to export, and
\* then nothing is processed: the bounds and the BLB data stay as constructed
\* and the only message is that there is nothing to export; the objects
\* processed are the selected ones where the selection is used and not empty,
\* else all objects of the scene.
C18_NoneExactlyWhenNothingToExport ==
    /\ result = "None" <=> (calls > 0 /\ ResolvedObjects = << >>)
    /\ calls > 0 => object_sequence = ResolvedObjects
    /\ result = "None" =>
           /\ pc = "returned"
           /\ bounds_data = BrickBounds
           /\ blb_data = BLBData
           /\ log = <<LOG_NOTHING_TO_EXPORT>>

\* process() has returned None for an empty scene with the selection to be
\* used.
C18_Witness ==
    /\ result = "None"
    /\ pc = "returned"
    /\ calls > 0
    /\ properties.use_selection # 0
    /\ context.scene_objects = << >>

\* The bounds were calculated from the visible meshes, there being no bounds
\* definition object.
InferredPath == BoundsResolved /\ ~HasBoundsObject /\ bounds_data.name = NoName

\* b is the ceiling of n / d units.
IsCeilingOf(b, n, d) == b * Unit * d >= n /\ (b - 1) * Unit * d < n

\* The span of the recorded coordinates in plates, per axis as a fraction n / d
\* of units: as recorded, and quantized to the default precision first.
PlateSpan(extent) ==
    [i \in 0..2 |-> IF i = Z THEN [n |-> extent[i] * PLATE_HEIGHT_DEN, d |-> PLATE_HEIGHT_NUM]
                    ELSE [n |-> extent[i], d |-> 1]]

QuantizedExtent == [i \in 0..2 |-> to_decimal(GeometryExtent[i], FLOATING_POINT_PRECISION)]

NonIntegral(span) == \E i \in 0..2 : span[i].n % (Unit * span[i].d) # 0

\* C19 (as the code has it): in the inferred path, whenever the span of the
\* recorded coordinates, quantized to the default precision and scaled to
\* plates, is not a whole number on some axis, every axis of brick_size is the
\* ceiling of its quantized plate-scaled span, so brick_size is never smaller
\* than that span on any axis.
C19_CeilingOfQuantizedSpan ==
    (InferredPath /\ NonIntegral(PlateSpan(QuantizedExtent))) =>
        \A i \in 0..2 :
            IsCeilingOf(blb_data.brick_size[i], PlateSpan(QuantizedExtent)[i].n,
                        PlateSpan(QuantizedExtent)[i].d)

\* The brick size of the wedge alone, 1.2999996 x 1.0000004 x 1.0 before
\* quantizing, was calculated as 2 x 1 x 3.
C19_Witness ==
    /\ InferredPath
    /\ Len(object_sequence) = 1
    /\ object_sequence[1].name = "wedge"
    /\ NonIntegral(PlateSpan(QuantizedExtent))
    /\ blb_data.brick_size = Vec(2, 1, 3)

\* C19 as stated: with the span of the recorded coordinates themselves, so
\* that brick_size is never smaller than the span of the geometry.
C19_CeilingOfSpan ==
    (InferredPath /\ NonIntegral(PlateSpan(GeometryExtent))) =>
        \A i \in 0..2 :
            IsCeilingOf(blb_data.brick_size[i], PlateSpan(GeometryExtent)[i].n,
                        PlateSpan(GeometryExtent)[i].d)

\* The bounds were taken from a bounds definition object.
ExplicitPath == BoundsResolved /\ HasBoundsObject

\* The size of the bounds definition object in plates.
DefinedPlateSize == sequence_z_to_plates(TheBoundsObject.dimensions)

\* C20 as stated: in the explicit path, when the size of the bounds object in
\* plates is not integral, each axis of brick_size is that size rounded to the
\* nearest multiple of the human error tolerance, half rounded up; the
\* warning is issued and the run continues.
C20_RoundedToHumanError ==
    (ExplicitPath /\ ~are_ints(DefinedPlateSize)) =>
        /\ \A i \in 0..2 :
               blb_data.brick_size[i] * Unit
                   = to_decimal(DefinedPlateSize[i], Unit \div HUMAN_ERROR_DEN)
        /\ \E n \in DOMAIN log : log[n] = LOG_DEFINED_BOUNDS_NON_INTEGER
        /\ pc # "raised"

\* The object of the sequence a record was made from, and the polygon.
SourceObject(quad) ==
    CHOOSE obj \in {object_sequence[k] : k \in DOMAIN object_sequence} :
        obj.name = quad.source[1]

SourcePolygon(quad) == SourceObject(quad).polygons[quad.source[2]]

\* The loop at a position 0..3 of a polygon: a triangle has its starting
\* loop once more at position 3.
LoopAt(poly, position) ==
    IF position < poly.loop_total THEN poly.loop_start + position ELSE poly.loop_start

\* A vertex local to the bounds, Z in plates.
LocalInPlates(vertex) ==
    sequence_z_to_plates(world_to_local(vertex, bounds_data.world_center))

\* The records of the returned quads.
QuadRecords ==
    UNION {{blb_data.quads[section][n] : n \in DOMAIN blb_data.quads[section]} :
              section \in DOMAIN blb_data.quads}

\* C26: every quad record has exactly 4 positions, 4 normals and 4 UVs; the
\* position at index i is the vertex of the polygon's loop at position 3 - i;
\* the record of a triangle has the polygon's starting vertex first and last;
\* the normal of a smooth polygon and the UV of a mesh with UVs at index i
\* are those of the loop the position at index i comes from.
C26_FourReversedLoopsPerRecord ==
    Returned =>
        \A quad \in QuadRecords :
            LET obj == SourceObject(quad)
                poly == SourcePolygon(quad)
            IN  /\ DOMAIN quad.positions = 0..3
                /\ DOMAIN quad.normals = 0..3
                /\ DOMAIN quad.uvs = 0..3
                /\ \A i \in 0..3 :
                       LET loop_index == LoopAt(poly, 3 - i)
                           vert_index == obj.loops[loop_index + 1]
                       IN  /\ quad.positions[i] = LocalInPlates(obj.vertices[vert_index + 1])
                           /\ poly.use_smooth => quad.normals[i] = VertexNormal(vert_index)
                           /\ obj.uv_layers > 0 => quad.uvs[i] = LoopUV(loop_index)
                /\ poly.loop_total = 3 =>
                       LET start == LocalInPlates(obj.vertices[obj.loops[poly.loop_start + 1] + 1])
                       IN  quad.positions[0] = start /\ quad.positions[3] = start

\* The records of a smooth triangle and of a flat quad of a mesh with UVs
\* were returned: the triangle's has three different positions and normals.
C26_Witness ==
    /\ Returned
    /\ \E quad \in QuadRecords :
           /\ SourcePolygon(quad).loop_total = 3
           /\ SourcePolygon(quad).use_smooth
           /\ SourceObject(quad).uv_layers > 0
           /\ Cardinality({quad.positions[i] : i \in 0..3}) = 3
           /\ Cardinality({quad.normals[i] : i \in 0..3}) = 3
           /\ quad.uvs[0] = LoopUV(SourcePolygon(quad).loop_start)
           /\ quad.uvs[1] = LoopUV(SourcePolygon(quad).loop_start + 2)
    /\ \E quad \in QuadRecords :
           /\ SourcePolygon(quad).loop_total = 4
           /\ ~SourcePolygon(quad).use_smooth
           /\ quad.normals[0] = PolygonNormal(quad.source[2])

\* ------------------------- specification: __process_grid_definitions

\* Bounds objects of 2 x 2 x 2 and of 1 x 2 x 3 plates, and one of
\* 2.5 x 1 x 1.5 plates, whose brick size is rounded to 2 x 1 x 2.
GridBoundsObjects ==
    {BoxMesh("bounds_even", BOUNDS_NAME_PREFIX,
             Vec(0, 0, 0), Vec(Tenths(20), Tenths(20), Tenths(8)), << >>, << >>),
     BoxMesh("bounds_rounded", BOUNDS_NAME_PREFIX,
             Vec(0, 0, 0), Vec(Tenths(25), Tenths(10), Tenths(6)), << >>, << >>),
     BoxMesh("bounds_odd", BOUNDS_NAME_PREFIX,
             Vec(0, 0, 0), Vec(Tenths(10), Tenths(20), Tenths(12)), << >>, << >>)}

\* Grid definition objects: boxes inside the whole-numbered bounds that
\* overlap one another, a box inside the even bounds only, a box with no
\* height, a box outside, and a box inside the rounded bounds.
GridObjects ==
    {BoxMesh("gridx_inner", "gridx",
             Vec(Unit \div 4, 0, Tenths(1)), Vec(9 * (Unit \div 4), Tenths(10), Tenths(5)),
             << >>, << >>),
     BoxMesh("gridx_core", "gridx",
             Vec(0, 0, 0), Vec(Tenths(10), Tenths(20), Tenths(8)), << >>, << >>),
     BoxMesh("gridu_top", "gridu",
             Vec(0, 0, Tenths(4)), Vec(Tenths(10), Tenths(20), Tenths(8)), << >>, << >>),
     BoxMesh("gridd_bottom", "gridd",
             Vec(0, 0, 0), Vec(Tenths(10), Tenths(10), Tenths(4)), << >>, << >>),
     BoxMesh("gridb_corner", "gridb",
             Vec(0, Tenths(10), 0), Vec(Tenths(10), Tenths(20), Tenths(8)), << >>, << >>),
     BoxMesh("grid-_hole", "grid-",
             Vec(0, 0, Tenths(4)), Vec(Tenths(10), Tenths(10), Tenths(8)), << >>, << >>),
     BoxMesh("gridx_wide", "gridx",
             Vec(0, 0, 0), Vec(Tenths(20), Tenths(20), Tenths(8)), << >>, << >>),
     BoxMesh("gridu_flat", "gridu",
             Vec(0, 0, 0), Vec(Tenths(10), Tenths(10), 0), << >>, << >>),
     BoxMesh("gridb_far", "gridb",
             Vec(0, 0, 0), Vec(Tenths(30), Tenths(10), Tenths(4)), << >>, << >>)}

\* Up to MaxGridObjects different grid definition objects, in the order found.
GridObjectSequences ==
    {objects \in UNION {[1..n -> GridObjects] : n \in 0..MaxGridObjects} :
        \A i, j \in DOMAIN objects : i # j => objects[i] # objects[j]}

InitGrid ==
    /\ \E objects \in GridObjectSequences, bounds_object \in GridBoundsObjects,
          axis \in ForwardAxes :
          callIn = [definition_objects |-> objects,
                    bounds |-> process_bounds_object(bounds_object).bounds,
                    brick_size |-> process_bounds_object(bounds_object).brick_size,
                    forward_axis |-> axis]
    /\ callOut = NoArg
    /\ properties = WithExport(NoCoverage, 0, "POSITIVE_X")
    /\ ProcessorIdle
    /\ SortIdle
    /\ CoverageIdle

CallProcessGridDefinitions ==
    /\ callIn # NoArg
    /\ callOut = NoArg
    /\ callOut' = process_grid_definitions(callIn.definition_objects, callIn.bounds,
                                           callIn.brick_size, callIn.forward_axis)
    /\ UNCHANGED <<context, properties, processor, pc, calls, locals, result, log,
                   sortIn, sortOut, covIn, covOut, callIn>>

NextGrid == CallProcessGridDefinitions

SpecGrid == InitGrid /\ [][NextGrid]_vars

\* ------------------------------- claims: __process_grid_definitions

GridDone == callIn # NoArg /\ callOut # NoArg

\* The position of a definition's symbol in the priority order, by the prefix
\* of its name, and the symbol.
SymbolPriority(obj) ==
    CHOOSE i \in 1..5 : GRID_DEF_OBJ_PREFIX_PRIORITY[i] = obj.prefix

SymbolOf(obj) ==
    CASE obj.prefix = "gridx" -> GRID_INSIDE
      [] obj.prefix = "grid-" -> GRID_OUTSIDE
      [] obj.prefix = "gridu" -> GRID_UP
      [] obj.prefix = "gridd" -> GRID_DOWN
      [] obj.prefix = "gridb" -> GRID_BOTH

VolumeOf(obj) == grid_object_to_volume(obj, callIn.bounds, callIn.forward_axis)

\* The accepted definitions whose volume holds the cell: the volume's first
\* range indexes the outer list of the grid, its third the rows, its second
\* the cells of a row.
DefinitionsAt(outer, row, cell) ==
    {k \in DOMAIN callIn.definition_objects :
        LET converted == VolumeOf(callIn.definition_objects[k])
        IN  /\ converted.raised = "ok"
            /\ outer \in converted.volume[0][1]..(converted.volume[0][2] - 1)
            /\ row \in converted.volume[2][1]..(converted.volume[2][2] - 1)
            /\ cell \in converted.volume[1][1]..(converted.volume[1][2] - 1)}

Reorderings(sequence) ==
    {[i \in DOMAIN sequence |-> sequence[f[i]]] :
        f \in {g \in [DOMAIN sequence -> DOMAIN sequence] :
                   \A i, j \in DOMAIN sequence : i # j => g[i] # g[j]}}

\* C11: with grid definitions, a cell no accepted volume holds is 'outside',
\* and any other cell has the symbol of the volume holding it that is painted
\* last, the one latest in the priority order of the symbols; the grid is the
\* same for every order in which the definitions are found.
C11_LastPaintedByPriority ==
    (GridDone /\ Len(callIn.definition_objects) > 0) =>
        /\ callOut.raised = "ok" =>
               \A outer \in DOMAIN callOut.brick_grid :
                   \A row \in DOMAIN callOut.brick_grid[outer] :
                       \A cell \in DOMAIN callOut.brick_grid[outer][row] :
                           LET holding == DefinitionsAt(outer, row, cell)
                               last == CHOOSE k \in holding :
                                           \A j \in holding :
                                               SymbolPriority(callIn.definition_objects[j])
                                                   <= SymbolPriority(callIn.definition_objects[k])
                           IN  callOut.brick_grid[outer][row][cell] =
                                   IF holding = {}
                                   THEN GRID_OUTSIDE
                                   ELSE SymbolOf(callIn.definition_objects[last])
        /\ \A other \in Reorderings(callIn.definition_objects) :
               process_grid_definitions(other, callIn.bounds, callIn.brick_size,
                                        callIn.forward_axis) = callOut

\* A definition later in the priority order is found before an earlier one,
\* their volumes overlap, and the grid has cells of both symbols and cells
\* that stay 'outside'.
C11_Witness ==
    /\ GridDone
    /\ Len(callIn.definition_objects) = 2
    /\ callOut.raised = "ok"
    /\ SymbolPriority(callIn.definition_objects[1]) > SymbolPriority(callIn.definition_objects[2])
    /\ \E outer \in DOMAIN callOut.brick_grid :
           \E row \in DOMAIN callOut.brick_grid[outer] :
               \E cell \in DOMAIN callOut.brick_grid[outer][row] :
                   /\ DefinitionsAt(outer, row, cell) = {1, 2}
                   /\ callOut.brick_grid[outer][row][cell] = SymbolOf(callIn.definition_objects[1])
    /\ \E outer \in DOMAIN callOut.brick_grid :
           \E row \in DOMAIN callOut.brick_grid[outer] :
               \E cell \in DOMAIN callOut.brick_grid[outer][row] :
                   callOut.brick_grid[outer][row][cell] = SymbolOf(callIn.definition_objects[2])
    /\ \E outer \in DOMAIN callOut.brick_grid :
           \E row \in DOMAIN callOut.brick_grid[outer] :
               \E cell \in DOMAIN callOut.brick_grid[outer][row] :
                   DefinitionsAt(outer, row, cell) = {}

\* Grid definitions were found and every one of them was ignored.
NoDefinitionProcessed ==
    /\ Len(callIn.definition_objects) > 0
    /\ \A k \in DOMAIN callIn.definition_objects :
           VolumeOf(callIn.definition_objects[k]).raised # "ok"

\* The symbol of the automatically generated grid in a row, of a brick of the
\* given height in plates.
GeneratedSymbol(row, height) ==
    IF height = 1 THEN GRID_BOTH
    ELSE IF row = 0 THEN GRID_UP
    ELSE IF row = height - 1 THEN GRID_DOWN
    ELSE GRID_INSIDE

\* C24 as stated: when grid definitions are found and none of them is
\* processed, the brick grid is the automatically generated one (up, inside,
\* down, or both for one plate), not a grid of 'outside' cells only.
C24_GeneratedGridWhenNoneProcessed ==
    (GridDone /\ NoDefinitionProcessed) =>
        /\ callOut.raised = "ok"
        /\ \A outer \in DOMAIN callOut.brick_grid :
               \A row \in DOMAIN callOut.brick_grid[outer] :
                   \A cell \in DOMAIN callOut.brick_grid[outer][row] :
                       callOut.brick_grid[outer][row][cell]
                           = GeneratedSymbol(row, callIn.brick_size[Z])

\* The sequence without its k-th element.
Without(sequence, k) ==
    [i \in 1..(Len(sequence) - 1) |-> IF i < k THEN sequence[i] ELSE sequence[i + 1]]

GridLengths ==
    LET along_x == callIn.forward_axis \in {"POSITIVE_X", "NEGATIVE_X"}
    IN  [outer |-> IF along_x THEN callIn.brick_size[Y] ELSE callIn.brick_size[X],
         rows |-> callIn.brick_size[Z],
         row |-> IF along_x THEN callIn.brick_size[X] ELSE callIn.brick_size[Y]]

InGrid(range, length) == 0 <= range[1] /\ range[1] < range[2] /\ range[2] <= length

\* C29: for every forward axis and every grid definition accepted, each index
\* range of its volume satisfies 0 <= min < max <= the length of the list
\* modify_brick_grid indexes with it (the first range the outer list, the
\* height range the rows, the second range the cells of a row), so that
\* painting raises no IndexError, also for a brick size rounded from bounds
\* that are no whole number of plates.
C29_VolumeInsideGrid ==
    GridDone =>
        /\ callOut.raised = "ok"
        /\ \A k \in DOMAIN callIn.definition_objects :
               LET converted == VolumeOf(callIn.definition_objects[k])
               IN  converted.raised = "ok" =>
                       /\ InGrid(converted.volume[X], GridLengths.outer)
                       /\ InGrid(converted.volume[Z], GridLengths.rows)
                       /\ InGrid(converted.volume[Y], GridLengths.row)

\* A definition was accepted and painted in bounds of 2.5 x 1 x 1.5 plates,
\* the brick size being 2 x 1 x 2, with the forward axis -X.
C29_Witness ==
    /\ GridDone
    /\ callIn.bounds.name = "bounds_rounded"
    /\ callIn.brick_size = Vec(2, 1, 2)
    /\ callIn.forward_axis = "NEGATIVE_X"
    /\ \E k \in DOMAIN callIn.definition_objects :
           /\ VolumeOf(callIn.definition_objects[k]).raised = "ok"
           /\ VolumeOf(callIn.definition_objects[k]).volume[Y] = <<0, 2>>
    /\ \E outer \in DOMAIN callOut.brick_grid :
           \E row \in DOMAIN callOut.brick_grid[outer] :
               \E cell \in DOMAIN callOut.brick_grid[outer][row] :
                   callOut.brick_grid[outer][row][cell] = GRID_INSIDE

\* ----------------- specification: process() with collision definitions

CollisionNames ==
    <<"collision.001", "collision.002", "collision.003", "collision.004",
      "collision.005", "collision.006", "collision.007", "collision.008",
      "collision.009", "collision.010", "collision.011", "collision.012",
      "collision.013", "collision.014", "collision.015", "collision.016">>

\* The bounds of the scenes with collision definitions: 2 x 2 x 4 plates.
CollisionBoundsObject ==
    BoxMesh("bounds", BOUNDS_NAME_PREFIX,
            Vec(0, 0, 0), Vec(Tenths(20), Tenths(20), Tenths(16)), << >>, << >>)

\* The k-th collision definition of a scene: a box inside the bounds, no two
\* of them alike.
ValidCollisionObject(k) ==
    BoxMesh(CollisionNames[k], COLLISION_PREFIX,
            Vec(Tenths(k \div 4), 0, 0),
            Vec(Tenths(10 + 10 * (k % 2)), Tenths(10 + 10 * ((k \div 2) % 2)),
                Tenths(4 * (1 + (k % 4)))),
            << >>, << >>)

\* A definition that is ignored: one with a single vertex, one with no
\* extent on Y, or one outside the bounds.
InvalidCollisionObject(k) ==
    IF k % 3 = 1
    THEN [name |-> CollisionNames[k], prefix |-> COLLISION_PREFIX, type |-> "MESH",
          vertices |-> <<Vec(0, 0, 0)>>, dimensions |-> Vec(0, 0, 0),
          loops |-> << >>, polygons |-> << >>, uv_layers |-> 0]
    ELSE IF k % 3 = 2
    THEN BoxMesh(CollisionNames[k], COLLISION_PREFIX,
                 Vec(0, Tenths(10), 0), Vec(Tenths(10), Tenths(10), Tenths(4)), << >>, << >>)
    ELSE BoxMesh(CollisionNames[k], COLLISION_PREFIX,
                 Vec(0, 0, 0), Vec(Tenths(30), Tenths(10), Tenths(4)), << >>, << >>)

\* The places of a scene at which the definition may be one that is ignored.
InvalidPlaces == {1, 2, 5, MaxCollisionObjects}

\* The scenes: the bounds object and n collision definitions, the newest
\* first as Blender lists them.
CollisionScenes ==
    {<<CollisionBoundsObject>> \o
         [k \in 1..n |-> IF k \in invalid THEN InvalidCollisionObject(k)
                         ELSE ValidCollisionObject(k)] :
         n \in 0..MaxCollisionObjects, invalid \in SUBSET InvalidPlaces}

InitCollision ==
    /\ \E objects \in CollisionScenes :
           context = [scene_objects |-> objects, selected_objects |-> << >>]
    /\ properties \in {WithExport(NoCoverage, 0, axis) : axis \in {"POSITIVE_X", "NEGATIVE_Y"}}
    /\ bounds_data = BrickBounds
    /\ blb_data = BLBData
    /\ pc = "idle"
    /\ calls = 0
    /\ result = "nothing"
    /\ log = << >>
    /\ NoLocals
    /\ SortIdle
    /\ CoverageIdle
    /\ CallIdle

SpecCollision == InitCollision /\ [][Next]_vars

\* -------------------------------------- claims: collision definitions

CollisionDone == pc \in {"coverage", "mesh"} \/ Returned

IsCollisionObject(obj) == obj.type = "MESH" /\ obj.prefix = COLLISION_PREFIX

\* The collision definitions of the object sequence, the oldest first: the
\* host lists the newest object first.
HostCollisionDefinitions ==
    SelectSeq([i \in 1..Len(object_sequence) |->
                  object_sequence[Len(object_sequence) + 1 - i]],
              IsCollisionObject)

\* The least and the greatest vertex coordinate of an object on an axis,
\* local to the center of the bounds.
LocalMinimum(obj, i) ==
    SetMin({obj.vertices[n][i] : n \in DOMAIN obj.vertices}) - bounds_data.world_center[i]

LocalMaximum(obj, i) ==
    SetMax({obj.vertices[n][i] : n \in DOMAIN obj.vertices}) - bounds_data.world_center[i]

\* A definition that is accepted: 2 vertices or more, inside the bounds and
\* with an extent on every axis.
AcceptedCollision(obj) ==
    /\ Len(obj.vertices) >= 2
    /\ \A i \in 0..2 :
           /\ 2 * LocalMinimum(obj, i) >= -bounds_data.dimensions[i]
           /\ 2 * LocalMaximum(obj, i) <= bounds_data.dimensions[i]
           /\ LocalMaximum(obj, i) # LocalMinimum(obj, i)

\* A length on Z in plates: the plate height is PLATE_HEIGHT_NUM / PLATE_HEIGHT_DEN.
InPlates(v, i) == IF i = 2 THEN (v * PLATE_HEIGHT_DEN) \div PLATE_HEIGHT_NUM ELSE v

\* The box of a definition: (center, size).
ExpectedBox(obj) ==
    <<[i \in 0..2 |-> InPlates((LocalMaximum(obj, i) + LocalMinimum(obj, i)) \div 2, i)],
      [i \in 0..2 |-> InPlates(LocalMaximum(obj, i) - LocalMinimum(obj, i), i)]>>

AcceptedDefinitions == SelectSeq(HostCollisionDefinitions, AcceptedCollision)

\* The boxes one run emits: those of the first 10 accepted definitions.
EmittedBoxes ==
    [k \in 1..(IF Len(AcceptedDefinitions) > 10 THEN 10 ELSE Len(AcceptedDefinitions)) |->
        ExpectedBox(AcceptedDefinitions[k])]

RECURSIVE Repeated(_, _)
Repeated(sequence, times) ==
    IF times = 0 THEN << >> ELSE sequence \o Repeated(sequence, times - 1)

ReportsOf(message) == Cardinality({n \in DOMAIN log : log[n] = message})

MoreThanTenValid ==
    /\ Len(HostCollisionDefinitions) > 10
    /\ \A k \in DOMAIN HostCollisionDefinitions : AcceptedCollision(HostCollisionDefinitions[k])

C13_BoxesOldestFirst ==
    CollisionDone => blb_data.collision = Repeated(EmittedBoxes, calls)

\* A run over accepted and ignored definitions has emitted different boxes.
C13_Witness ==
    /\ CollisionDone
    /\ calls = 1
    /\ Len(blb_data.collision) >= 3
    /\ Len(HostCollisionDefinitions) > Len(AcceptedDefinitions)
    /\ blb_data.collision[1] # blb_data.collision[2]
    /\ blb_data.collision[1] = ExpectedBox(object_sequence[Len(object_sequence)])

\* C21 as stated: nothing carries over between calls of process(): a second
\* call on the same processor and the same input returns the collision list
\* of the first call, the boxes of one run, and does not take the bounds
\* object for a duplicate.
C21_SecondCallSameAsFirst ==
    (Returned /\ calls = 2) =>
        /\ blb_data.collision = EmittedBoxes
        /\ ReportsOf(LOG_MULTIPLE_BOUNDS) = 0

\* C23 as stated: with more than 10 collision definitions, a definition at
\* place 11 or later in processing order adds no box, also when definitions
\* among the first 10 were ignored.
C23_OnlyFirstTenDefinitions ==
    (CollisionDone /\ calls = 1 /\ Len(HostCollisionDefinitions) > 10) =>
        \A k \in DOMAIN HostCollisionDefinitions :
            (k > 10 /\ AcceptedCollision(HostCollisionDefinitions[k])) =>
                \A n \in DOMAIN blb_data.collision :
                    blb_data.collision[n] # ExpectedBox(HostCollisionDefinitions[k])

\* ---------------------------------------------- claims: the stages of a run

\* The run has left the loop over the objects.
PastDefinitions == pc \in {"grid", "collision", "coverage", "mesh", "raised"} \/ Returned

\* How often the current run has written the bounds data and the brick size:
\* each write is followed by a message about the brick size.
BoundsWrites ==
    ReportsOf(LOG_DEFINED_BRICK_SIZE) + ReportsOf(LOG_CALCULATED_BRICK_SIZE)

\* A step of a run: the bounds are written before the grid stage only, the
\* stages follow each other as grid, collision, coverage, quads, and each
\* part of the BLB data is written by its own stage.
StagesInOrder ==
    /\ (bounds_data' # bounds_data \/ blb_data'.brick_size # blb_data.brick_size)
           => pc = "definitions"
    /\ pc = "definitions" => pc' \in {"definitions", "grid", "raised"}
    /\ pc = "grid" => pc' \in {"collision", "raised"}
    /\ pc = "collision" => pc' = "coverage"
    /\ pc = "coverage" => pc' = "mesh"
    /\ pc = "mesh" => pc' = "returned"
    /\ blb_data'.brick_grid # blb_data.brick_grid => pc = "grid"
    /\ blb_data'.collision # blb_data.collision => pc = "collision"
    /\ blb_data'.coverage # blb_data.coverage => pc = "coverage"
    /\ blb_data'.quads # blb_data.quads => pc = "mesh"

\* C22 as stated: in every run that has objects the bounds data and the brick
\* size are written exactly once, before any grid or collision definition is
\* converted; then the grid, the collision boxes, the coverage and the quads
\* are made in that order and none of these stages writes the bounds again.
C22_BoundsOnceThenStagesInOrder ==
    /\ [](PastDefinitions => BoundsWrites = 1)
    /\ [][StagesInOrder]_vars

\* The bounds path a run has taken, by its messages.
ExplicitRan == ReportsOf(LOG_DEFINED_BRICK_SIZE) = 1

InferredRan == ReportsOf(LOG_NO_BOUNDS_DEFINITION) = 1

\* The objects of the sequence that satisfy a test, the oldest first.
OldestFirst(Test(_)) ==
    SelectSeq([i \in 1..Len(object_sequence) |->
                  object_sequence[Len(object_sequence) + 1 - i]], Test)

MeshPlace(quad) ==
    CHOOSE k \in DOMAIN OldestFirst(IsVisibleMesh) :
        OldestFirst(IsVisibleMesh)[k].name = quad.source[1]

\* The polygon of the first record was encountered before that of the second.
EncounteredBefore(first, second) ==
    \/ MeshPlace(first) < MeshPlace(second)
    \/ MeshPlace(first) = MeshPlace(second) /\ first.source[2] < second.source[2]

\* C28: in each of the 7 lists of quads the records are in the order their
\* polygons were encountered: meshes in processing order, the polygons of a
\* mesh in stored order.
C28_EncounterOrderInSection ==
    Returned =>
        \A section \in DOMAIN blb_data.quads :
            \A n, later \in DOMAIN blb_data.quads[section] :
                n < later => EncounteredBefore(blb_data.quads[section][n],
                                               blb_data.quads[section][later])

\* One list holds two records of one mesh and a record of another mesh.
C28_Witness ==
    /\ Returned
    /\ \E section \in DOMAIN blb_data.quads :
           /\ Len(blb_data.quads[section]) >= 3
           /\ \E n, later \in DOMAIN blb_data.quads[section] :
                  /\ n < later
                  /\ MeshPlace(blb_data.quads[section][n])
                         = MeshPlace(blb_data.quads[section][later])
           /\ \E n, later \in DOMAIN blb_data.quads[section] :
                  /\ n < later
                  /\ MeshPlace(blb_data.quads[section][n])
                         < MeshPlace(blb_data.quads[section][later])

\* ------------------------------------------------ specification: to_decimal

\* The values passed to to_decimal: the multiples of 0.05 and of 0.0000005
\* from -MaxTwentieths to MaxTwentieths of them.  A float is passed as the
\* decimal number its default formatting prints.
DecimalValues ==
    {k * (Unit \div 20) : k \in (-MaxTwentieths)..MaxTwentieths}
        \cup {k * 5 : k \in (-MaxTwentieths)..MaxTwentieths}

\* The quantize arguments: the default precision, 0.1, 0.5, 1, zero and -0.5,
\* as a string, a Decimal, a float or (for the whole numbers) an int.
DecimalQuantizes ==
    {quantize \in [type : QuantizeTypes,
                   value : {FLOATING_POINT_PRECISION, Unit \div 10, Unit \div 2, Unit,
                            0, -(Unit \div 2)}] :
        quantize.type = "int" => quantize.value % Unit = 0}

InitDecimal ==
    /\ \E value \in DecimalValues, quantize \in DecimalQuantizes :
          callIn = [value |-> value, quantize |-> quantize]
    /\ callOut = << >>
    /\ properties = WithExport(NoCoverage, 0, "POSITIVE_X")
    /\ ProcessorIdle
    /\ SortIdle
    /\ CoverageIdle

\* One call of to_decimal: the first one with the value drawn, a later one
\* with the value the call before it returned.
CallToDecimal ==
    /\ callIn # NoArg
    /\ Len(callOut) < MaxCalls
    /\ callOut # << >> => callOut[Len(callOut)].raised = NoError
    /\ LET value == IF callOut = << >> THEN callIn.value
                    ELSE callOut[Len(callOut)].value
           raised == to_decimal_raises(callIn.quantize)
       IN  callOut' = Append(callOut,
               IF raised # NoError
               THEN [raised |-> raised, value |-> None]
               ELSE [raised |-> NoError,
                     value |-> to_decimal(value, callIn.quantize.value)])
    /\ UNCHANGED <<context, properties, processor, pc, calls, locals, result, log,
                   sortIn, sortOut, covIn, covOut, callIn>>

NextDecimal == CallToDecimal

SpecDecimal == InitDecimal /\ [][NextDecimal]_vars

\* ------------------------------------------------------- claims: to_decimal

\* The value passed to the n-th call.
DecimalArgument(n) == IF n = 1 THEN callIn.value ELSE callOut[n - 1].value

\* The quantize argument is a string or a Decimal of a positive number.
PositiveStep == callIn.quantize.type \in {"str", "Decimal"} /\ callIn.quantize.value > 0

\* The value lies exactly halfway between two adjacent multiples of the step.
Halfway(value, step) == (2 * value) % step = 0 /\ value % step # 0

\* C14: for every value and positive step, to_decimal returns a multiple of
\* the step at most half a step away from the value, and for a positive value
\* halfway between two adjacent multiples it returns the larger of the two.
C14_NearestMultipleHalfUp ==
    \A n \in DOMAIN callOut :
        PositiveStep =>
            LET v == DecimalArgument(n)
                s == callIn.quantize.value
                r == callOut[n].value
            IN  /\ callOut[n].raised = NoError
                /\ r % s = 0
                /\ 2 * Abs(r - v) <= s
                /\ (v > 0 /\ Halfway(v, s)) => r = v + s \div 2

\* to_decimal(0.25, "0.5") has returned 0.5.
C14_Witness ==
    /\ callOut # << >>
    /\ callIn = [value |-> Unit \div 4, quantize |-> [type |-> "str", value |-> Unit \div 2]]
    /\ callOut[1] = [raised |-> NoError, value |-> Unit \div 2]

\* C15 (as the code has it): for every negative value halfway between two
\* adjacent multiples of a positive step, to_decimal returns the multiple
\* farther from zero, the smaller of the two: to_decimal(-0.25, "0.5") = -0.5.
C15_NegativeTieAwayFromZero ==
    \A n \in DOMAIN callOut :
        (PositiveStep /\ DecimalArgument(n) < 0
            /\ Halfway(DecimalArgument(n), callIn.quantize.value)) =>
            /\ callOut[n].raised = NoError
            /\ callOut[n].value = DecimalArgument(n) - callIn.quantize.value \div 2

\* to_decimal(-0.25, "0.5") has returned -0.5.
C15_Witness ==
    /\ callOut # << >>
    /\ callIn = [value |-> -(Unit \div 4), quantize |-> [type |-> "str", value |-> Unit \div 2]]
    /\ callOut[1] = [raised |-> NoError, value |-> -(Unit \div 2)]

\* C15 as stated: a negative value halfway between two adjacent multiples is
\* rounded to the multiple closer to positive infinity.
C15_NegativeTieTowardPositiveInfinity ==
    \A n \in DOMAIN callOut :
        (PositiveStep /\ DecimalArgument(n) < 0
            /\ Halfway(DecimalArgument(n), callIn.quantize.value)) =>
            /\ callOut[n].raised = NoError
            /\ callOut[n].value = DecimalArgument(n) + callIn.quantize.value \div 2

\* C16: quantizing is idempotent: to_decimal of a value to_decimal returned,
\* with the same step, returns that value again.
C16_Idempotent ==
    \A n \in DOMAIN callOut :
        n > 1 => /\ callOut[n].raised = NoError
                 /\ callOut[n].value = callOut[n - 1].value

\* A value that is no multiple of the step was quantized twice.
C16_Witness ==
    /\ Len(callOut) = 2
    /\ PositiveStep
    /\ callIn.value % callIn.quantize.value # 0
    /\ callOut[1].value # callIn.value
    /\ callOut[2].value = callOut[1].value

\* C17 as stated: for every step that is not a positive decimal value (zero,
\* negative, or neither a string nor a Decimal) to_decimal raises and returns
\* no value.
C17_InvalidStepRaises ==
    \A n \in DOMAIN callOut :
        ~PositiveStep => callOut[n].raised # NoError /\ callOut[n].value = None

====
